---- MODULE Spec2Model ----
(***************************************************************************)
(* Ingestion & hybrid retrieval engine of the RAG assistant: the ingestion *)
(* pipeline, the metadata store, the FAISS-backed vector store and its      *)
(* persistence, and the BM25 snapshot of the hybrid retriever.              *)
(*                                                                          *)
(* A text is a sequence of characters (one-character strings; the tokens    *)
(* CtlChar, EnDash and Ellipsis stand for one character each).  A vector is *)
(* a pair of integers in fixed point: a unit vector has norm UnitNorm.      *)
(***************************************************************************)
EXTENDS Integers, Sequences, FiniteSets, TLC

----------------------------------------------------------------------------
(* Characters and strings                                                   *)

CtlChar == "^G"
EnDash == "&ndash;"
Ellipsis == "&hellip;"

Whitespace == {" ", "\n", "\t"}
Terminals == {".", "!", "?"}

Rep(c, n) == [i \in 1..n |-> c]


RECURSIVE SumLen(_)
SumLen(ss) == IF ss = <<>> THEN 0 ELSE Len(Head(ss)) + SumLen(Tail(ss))

\* ' '.join(parts)
RECURSIVE JoinSpace(_)
JoinSpace(parts) ==
    IF parts = <<>> THEN <<>>
    ELSE IF Len(parts) = 1 THEN parts[1]
    ELSE parts[1] \o <<" ">> \o JoinSpace(Tail(parts))

\* str.strip(): drop leading and trailing whitespace
Strip(s) ==
    IF \A i \in 1..Len(s) : s[i] \in Whitespace THEN <<>>
    ELSE LET lo == CHOOSE i \in 1..Len(s) :
                      s[i] \notin Whitespace /\ \A j \in 1..(i-1) : s[j] \in Whitespace
             hi == CHOOSE i \in 1..Len(s) :
                      s[i] \notin Whitespace /\ \A j \in (i+1)..Len(s) : s[j] \in Whitespace
         IN SubSeq(s, lo, hi)

\* re.sub(r'\s+', ' ', s): every maximal run of whitespace becomes one space
\* (the characters lo..hi of s, halved so that the recursion stays shallow)
RECURSIVE CollapseWsRange(_, _, _)
CollapseWsRange(s, lo, hi) ==
    IF lo > hi THEN <<>>
    ELSE IF lo = hi
    THEN IF s[lo] \notin Whitespace THEN <<s[lo]>>
         ELSE IF lo > 1 /\ s[lo-1] \in Whitespace THEN <<>>
         ELSE <<" ">>
    ELSE LET mid == (lo + hi) \div 2
         IN CollapseWsRange(s, lo, mid) \o CollapseWsRange(s, mid + 1, hi)

CollapseWs(s) == CollapseWsRange(s, 1, Len(s))

\* the characters of s that are not in the set drop, in order
RECURSIVE WithoutRange(_, _, _, _)
WithoutRange(s, drop, lo, hi) ==
    IF lo > hi THEN <<>>
    ELSE IF lo = hi THEN IF s[lo] \in drop THEN <<>> ELSE <<s[lo]>>
    ELSE LET mid == (lo + hi) \div 2
         IN WithoutRange(s, drop, lo, mid) \o WithoutRange(s, drop, mid + 1, hi)

Without(s, drop) == WithoutRange(s, drop, 1, Len(s))

----------------------------------------------------------------------------
(* TextPreprocessor                                                         *)

normalize_whitespace(text) == Strip(CollapseWs(text))

remove_control_characters(text) == Without(text, {CtlChar})

Replacement(c) ==
    IF c = EnDash THEN <<"-">>
    ELSE IF c = Ellipsis THEN <<".", ".", ".">>
    ELSE <<c>>

RECURSIVE fix_encoding_range(_, _, _)
fix_encoding_range(text, lo, hi) ==
    IF lo > hi THEN <<>>
    ELSE IF lo = hi THEN Replacement(text[lo])
    ELSE LET mid == (lo + hi) \div 2
         IN fix_encoding_range(text, lo, mid) \o fix_encoding_range(text, mid + 1, hi)

fix_encoding(text) == fix_encoding_range(text, 1, Len(text))

process(text) ==
    IF text = <<>> THEN <<>>
    ELSE Strip(fix_encoding(remove_control_characters(normalize_whitespace(text))))

----------------------------------------------------------------------------
(* TextChunker                                                              *)

\* ChunkConfig defaults; the pipeline overrides chunk_size and chunk_overlap
\* with settings.chunk_size and settings.chunk_overlap
DefaultChunkSize == 512
DefaultChunkOverlap == 50
DefaultMinChunkSize == 100

PipelineChunkConfig ==
    [chunk_size |-> DefaultChunkSize,
     chunk_overlap |-> DefaultChunkOverlap,
     min_chunk_size |-> DefaultMinChunkSize,
     respect_sentence_boundary |-> TRUE,
     respect_word_boundary |-> TRUE]

\* re.sub(r'\s+', ' ', text), drop control characters, strip
clean_text(text) == Strip(Without(CollapseWs(text), {CtlChar}))

\* re.compile(r'[.!?]\s+').split(text): the pieces between the matches; a
\* match is a terminal character and the whole whitespace run that follows it
IsSentenceEnd(text, i) ==
    text[i] \in Terminals /\ i < Len(text) /\ text[i+1] \in Whitespace

RECURSIVE sentence_split_from(_, _, _)
sentence_split_from(text, i, acc) ==
    IF \A m \in i..Len(text) : ~IsSentenceEnd(text, m)
    THEN Append(acc, SubSeq(text, i, Len(text)))
    ELSE LET m == CHOOSE x \in i..Len(text) :
                     IsSentenceEnd(text, x) /\ \A y \in i..(x-1) : ~IsSentenceEnd(text, y)
             e == CHOOSE x \in (m+1)..Len(text) :
                     /\ (x = Len(text) \/ text[x+1] \notin Whitespace)
                     /\ \A y \in (m+1)..x : text[y] \in Whitespace
         IN sentence_split_from(text, e + 1, Append(acc, SubSeq(text, i, m - 1)))

sentence_split(text) == sentence_split_from(text, 1, <<>>)

\* the sentences kept for the overlap: walk backward from the end of the
\* emitted chunk until the cumulative length reaches chunk_overlap
RECURSIVE overlap_sentences(_, _, _)
overlap_sentences(current_chunk, overlap, acc) ==
    IF current_chunk = <<>> THEN acc
    ELSE LET sent == current_chunk[Len(current_chunk)]
             acc2 == <<sent>> \o acc
         IN IF SumLen(acc2) >= overlap THEN acc2
            ELSE overlap_sentences(SubSeq(current_chunk, 1, Len(current_chunk) - 1),
                                   overlap, acc2)

\* one iteration of the loop of _chunk_by_sentences
sentence_step(st, raw_sentence, cfg) ==
    LET sentence == Strip(raw_sentence)
        sentence_size == Len(sentence)
        emit == st.current_size + sentence_size > cfg.chunk_size
                    /\ st.current_chunk # <<>>
        chunk_text_ == JoinSpace(st.current_chunk)
        emitted == [text |-> chunk_text_,
                    start |-> st.start_pos,
                    end |-> st.start_pos + Len(chunk_text_)]
        kept == IF cfg.chunk_overlap > 0
                THEN overlap_sentences(st.current_chunk, cfg.chunk_overlap, <<>>)
                ELSE <<>>
        st2 == IF ~emit THEN st
               ELSE [chunks_ |-> Append(st.chunks_, emitted),
                     current_chunk |-> kept,
                     current_size |-> SumLen(kept),
                     start_pos |-> IF cfg.chunk_overlap > 0
                                   THEN st.start_pos + Len(chunk_text_) - SumLen(kept)
                                   ELSE st.start_pos + Len(chunk_text_) + 1]
    IN IF sentence = <<>> THEN st
       ELSE [st2 EXCEPT !.current_chunk = Append(st2.current_chunk, sentence),
                        !.current_size = st2.current_size + sentence_size]

RECURSIVE sentence_loop(_, _, _)
sentence_loop(st, sentences, cfg) ==
    IF sentences = <<>> THEN st
    ELSE sentence_loop(sentence_step(st, Head(sentences), cfg), Tail(sentences), cfg)

chunk_by_sentences(text, cfg) ==
    LET st == sentence_loop([chunks_ |-> <<>>, current_chunk |-> <<>>,
                             current_size |-> 0, start_pos |-> 0],
                            sentence_split(text), cfg)
        chunk_text_ == JoinSpace(st.current_chunk)
    IN IF st.current_chunk # <<>>
       THEN Append(st.chunks_, [text |-> chunk_text_,
                               start |-> st.start_pos,
                               end |-> st.start_pos + Len(chunk_text_)])
       ELSE st.chunks_

\* TextChunker.chunk_text with respect_sentence_boundary set
chunk_text(text, cfg) ==
    IF text = <<>> \/ Len(Strip(text)) < cfg.min_chunk_size THEN <<>>
    ELSE LET chunk_list == chunk_by_sentences(clean_text(text), cfg)
         IN [i \in 1..Len(chunk_list) |->
                [text |-> chunk_list[i].text,
                 start_char |-> chunk_list[i].start,
                 end_char |-> chunk_list[i].end,
                 chunk_index |-> i - 1]]

\* Python's slice and find bounds: a negative index counts from the end
PyIndex(i, n) == IF i < 0 THEN (IF i + n < 0 THEN 0 ELSE i + n)
                 ELSE IF i > n THEN n ELSE i

\* text[start:end]
PySlice(text, start, end) ==
    LET lo == PyIndex(start, Len(text))
        hi == PyIndex(end, Len(text))
    IN IF lo >= hi THEN <<>> ELSE SubSeq(text, lo + 1, hi)

\* text.rfind(' ', start, end)
rfind_space(text, start, end) ==
    LET lo == PyIndex(start, Len(text))
        hi == PyIndex(end, Len(text))
        found == {k \in lo..(hi - 1) : text[k + 1] = " "}
    IN IF found = {} THEN -1
       ELSE CHOOSE k \in found : \A other \in found : other <= k

\* the window of one iteration of _chunk_by_size (lines 145-153)
window_end(text, start, cfg) ==
    LET end0 == IF start + cfg.chunk_size < Len(text)
                THEN start + cfg.chunk_size ELSE Len(text)
        last_space == rfind_space(text, start, end0)
    IN IF cfg.respect_word_boundary /\ end0 < Len(text) /\ last_space > start
       THEN last_space
       ELSE end0

\* a window loop that also keeps the windows shorter than min_chunk_size
size_step_keep_short(run_) ==
    LET text_len == Len(run_.cleaned)
        end == window_end(run_.cleaned, run_.start, run_.cfg)
        window == Strip(PySlice(run_.cleaned, run_.start, end))
        kept == Append(run_.chunk_list,
                       [text |-> window, start |-> run_.start, end |-> end])
        back == end - run_.cfg.chunk_overlap
        start2 == IF back <= kept[Len(kept)].start THEN end ELSE back
    IN [run_ EXCEPT !.chunk_list = kept,
                    !.start = IF end >= text_len THEN run_.start ELSE start2,
                    !.iterations = run_.iterations + 1,
                    !.pc = IF end >= text_len \/ start2 >= text_len
                           THEN "done" ELSE "window"]

\* one iteration of the loop of _chunk_by_size (lines 144-171); the test of
\* line 170 reads (start <= chunks[-1]["start"]) if chunks else 0
size_step(run_) ==
    LET text_len == Len(run_.cleaned)
        end == window_end(run_.cleaned, run_.start, run_.cfg)
        window == Strip(PySlice(run_.cleaned, run_.start, end))
        kept == IF Len(window) >= run_.cfg.min_chunk_size
                THEN Append(run_.chunk_list,
                            [text |-> window, start |-> run_.start, end |-> end])
                ELSE run_.chunk_list
        back == end - run_.cfg.chunk_overlap
        start2 == IF kept # <<>> /\ back <= kept[Len(kept)].start THEN end ELSE back
    IN [run_ EXCEPT !.chunk_list = kept,
                    !.start = IF end >= text_len THEN run_.start ELSE start2,
                    !.iterations = run_.iterations + 1,
                    !.pc = IF end >= text_len \/ start2 >= text_len
                           THEN "done" ELSE "window"]

----------------------------------------------------------------------------
(* Deduplicator: pairwise deduplication of one batch                        *)

\* find_similar_chunks over a batch of n passages; similar[<<i, j>>] says that
\* similarity_matrix[i, j] >= similarity_threshold (positions from 0)
RECURSIVE similar_groups_from(_, _, _, _, _)
similar_groups_from(n, similar, i, processed, groups) ==
    IF i >= n THEN groups
    ELSE IF i \in processed
    THEN similar_groups_from(n, similar, i + 1, processed, groups)
    ELSE LET js == {j \in (i+1)..(n-1) : similar[<<i, j>>]}
         IN similar_groups_from(n, similar, i + 1,
                processed \cup js \cup (IF js # {} THEN {i} ELSE {}),
                IF js # {} THEN Append(groups, {i} \cup js) ELSE groups)

find_similar_chunks(n, similar) ==
    IF n < 2 THEN <<>> ELSE similar_groups_from(n, similar, 0, {}, <<>>)

\* a removal that drops every member of a group, the first included
to_remove_whole_groups(n, similar) ==
    LET groups == find_similar_chunks(n, similar)
    IN UNION {groups[g] : g \in 1..Len(groups)}

\* the positions deduplicate_chunks removes: every member of a group but
\* the first
to_remove(n, similar) ==
    LET groups == find_similar_chunks(n, similar)
    IN UNION {{j \in groups[g] : \E i \in groups[g] : i < j} : g \in 1..Len(groups)}

\* the subsequence of seq at the positions (from 0) not in the set drop
RECURSIVE KeepPositions(_, _, _)
KeepPositions(seq, drop, i) ==
    IF i >= Len(seq) THEN <<>>
    ELSE (IF i \in drop THEN <<>> ELSE <<seq[i+1]>>) \o KeepPositions(seq, drop, i + 1)

\* TF-IDF cosine similarity of the texts of a batch against the threshold:
\* identical texts have similarity 1.0; the texts of this model that differ
\* share less than the threshold
TextSimilarity(chunk_list) ==
    [ij \in (0..(Len(chunk_list)-1)) \X (0..(Len(chunk_list)-1)) |->
        chunk_list[ij[1]+1].text = chunk_list[ij[2]+1].text]

deduplicate_chunks(chunk_list) ==
    IF chunk_list = <<>> THEN <<>>
    ELSE KeepPositions(chunk_list, to_remove(Len(chunk_list), TextSimilarity(chunk_list)), 0)

----------------------------------------------------------------------------
(* Vectors and the embedding model                                          *)

\* the unit vectors the embedding model produces
UnitVectors == << <<5, 0>>, <<4, 3>>, <<3, 4>>, <<0, 5>>, <<-3, 4>>, <<-4, 3>>, <<-5, 0>> >>

Dot(u, v) == u[1] * v[1] + u[2] * v[2]

ISqrt(n) == CHOOSE r \in 0..n : r * r <= n /\ n < (r + 1) * (r + 1)

\* embedding_model.dimension and the fixed-point length of a unit vector
Dimension == Len(UnitVectors[1])
UnitNorm == ISqrt(Dot(UnitVectors[1], UnitVectors[1]))

\* faiss.normalize_L2: scale to unit norm, leave the zero vector alone
normalize_L2(v) ==
    LET norm == ISqrt(Dot(v, v))
    IN IF norm = 0 THEN v ELSE [i \in 1..Dimension |-> (v[i] * UnitNorm) \div norm]

\* EmbeddingModel.embed: a fixed function of the text, normalized
embed(text) == UnitVectors[(Len(text) % Len(UnitVectors)) + 1]

embed_batch(texts) == [i \in 1..Len(texts) |-> embed(texts[i])]

----------------------------------------------------------------------------
(* VectorStore: the index is the sequence of stored vectors (slot s is      *)
(* index[s+1]); the id map is a function from slots to items                *)

EmptyMap == [s \in {} |-> 0]

ntotal(idx) == Len(idx)

\* add_embeddings after the embeddings were computed (lines 72-86)
index_add(idx, embeddings) ==
    idx \o [i \in 1..Len(embeddings) |-> normalize_L2(embeddings[i])]

id_map_update(imap, start_idx, embedding_ids, metadata) ==
    [s \in DOMAIN imap \cup {start_idx + i - 1 : i \in 1..Len(embedding_ids)} |->
        IF s >= start_idx /\ s < start_idx + Len(embedding_ids)
        THEN [id |-> embedding_ids[s - start_idx + 1],
              metadata |-> metadata[s - start_idx + 1]]
        ELSE imap[s]]

\* remove_embeddings: the slots whose item carries one of the ids
indices_to_remove(imap, embedding_ids) ==
    {s \in DOMAIN imap : \E k \in 1..Len(embedding_ids) : imap[s].id = embedding_ids[k]}

\* the old slots kept by the rebuild, in slot order
RetainedSlots(idx, removed) == {s \in 0..(ntotal(idx) - 1) : s \notin removed}

NewSlot(idx, removed, old_idx) ==
    Cardinality({s \in RetainedSlots(idx, removed) : s < old_idx})

OldSlot(idx, removed, new_idx) ==
    CHOOSE s \in RetainedSlots(idx, removed) : NewSlot(idx, removed, s) = new_idx

rebuild_index(idx, removed) ==
    [k \in 1..Cardinality(RetainedSlots(idx, removed)) |->
        idx[OldSlot(idx, removed, k - 1) + 1]]

\* a rebuild that moves the vectors and leaves the items at their old slots
rebuild_id_map_old_slots(idx, imap, removed) ==
    [s \in RetainedSlots(idx, removed) \cap DOMAIN imap |-> imap[s]]

rebuild_id_map(idx, imap, removed) ==
    [n \in {NewSlot(idx, removed, s) : s \in RetainedSlots(idx, removed) \cap DOMAIN imap} |->
        imap[OldSlot(idx, removed, n)]]

remove_index(idx, imap, embedding_ids) ==
    IF indices_to_remove(imap, embedding_ids) = {} THEN idx
    ELSE rebuild_index(idx, indices_to_remove(imap, embedding_ids))

remove_id_map(idx, imap, embedding_ids) ==
    IF indices_to_remove(imap, embedding_ids) = {} THEN imap
    ELSE rebuild_id_map(idx, imap, indices_to_remove(imap, embedding_ids))

\* search after the query embedding was computed (lines 102-117): the
\* min(top_k, ntotal) slots of highest inner product, best first (equal
\* scores in slot order), resolved through the id map
SlotScore(idx, q, s) == Dot(normalize_L2(q), idx[s+1])

SlotRank(idx, q, s) ==
    Cardinality({t \in 0..(ntotal(idx) - 1) :
        \/ SlotScore(idx, q, t) > SlotScore(idx, q, s)
        \/ SlotScore(idx, q, t) = SlotScore(idx, q, s) /\ t < s})

Min(a, b) == IF a <= b THEN a ELSE b

faiss_search(idx, q, k) ==
    [r \in 1..Min(k, ntotal(idx)) |->
        CHOOSE s \in 0..(ntotal(idx) - 1) : SlotRank(idx, q, s) = r - 1]

RECURSIVE search_results(_, _, _, _, _)
search_results(idx, imap, q, hits, threshold) ==
    IF hits = <<>> THEN <<>>
    ELSE LET s == Head(hits)
             rest == search_results(idx, imap, q, Tail(hits), threshold)
         IN IF SlotScore(idx, q, s) >= threshold /\ s \in DOMAIN imap
            THEN << <<imap[s].id, SlotScore(idx, q, s), imap[s].metadata>> >> \o rest
            ELSE rest

vector_search(idx, imap, q, top_k) ==
    IF ntotal(idx) = 0 THEN <<>>
    ELSE search_results(idx, imap, q, faiss_search(idx, q, top_k), 0)

\* the files of the persisted index: absent, or written completely or not
NoFile == [state |-> "absent"]
PartialFile == [state |-> "partial"]

BytesPerFloat == 4

\* faiss.write_index: the dimension, the count and the flat float array
RECURSIVE Flatten(_)
Flatten(vs) == IF vs = <<>> THEN <<>> ELSE Head(vs) \o Flatten(Tail(vs))

write_index(idx) ==
    [state |-> "complete",
     d |-> Dimension, ntotal |-> ntotal(idx), xb |-> Flatten(idx)]

\* faiss.read_index: the rows of the flat array
read_index(file) ==
    [k \in 1..file.ntotal |-> SubSeq(file.xb, (k - 1) * file.d + 1, k * file.d)]

\* pickle.dump / pickle.load of the id map: the dict as its set of items
pickle_dump(imap) ==
    [state |-> "complete", items |-> {<<s, imap[s]>> : s \in DOMAIN imap}]

pickle_load(file) ==
    [s \in {it[1] : it \in file.items} |->
        (CHOOSE it \in file.items : it[1] = s)[2]]

Readable(file) == file.state = "complete"

\* a load that keeps the index it read when reading the id map raises
load_index_half_loaded(ifile, mfile) ==
    IF Readable(ifile) THEN read_index(ifile) ELSE <<>>

\* load(): both files read, or a new empty index when reading raises
load_index(ifile, mfile) ==
    IF Readable(ifile) /\ Readable(mfile) THEN read_index(ifile) ELSE <<>>

\* a load that reads the index file and starts with an empty id map
load_id_map_forgotten(ifile, mfile) == EmptyMap

load_id_map(ifile, mfile) ==
    IF Readable(ifile) /\ Readable(mfile) THEN pickle_load(mfile) ELSE EmptyMap

\* get_stats()
get_stats(idx, ifile) ==
    [total_vectors |-> ntotal(idx),
     dimension |-> Dimension,
     index_size_bytes |-> IF Readable(ifile) THEN BytesPerFloat * Len(ifile.xb)
                          ELSE 0]

----------------------------------------------------------------------------
(* DocumentStore: the documents table as a set of rows, the chunks table as *)
(* the sequence of its rows in rowid order                                  *)

\* hashlib.sha256(content).hexdigest(): equal exactly for equal contents
compute_checksum(content) == <<"sha256", content>>

NoDocument == [id |-> 0]

get_document(docs, file_path) ==
    IF \E d \in docs : d.file_path = file_path
    THEN CHOOSE d \in docs : d.file_path = file_path
    ELSE NoDocument

\* an INTEGER PRIMARY KEY without AUTOINCREMENT: one more than the largest
\* id in the table
NextDocumentId(docs) ==
    IF docs = {} THEN 1
    ELSE (CHOOSE d \in docs : \A e \in docs : e.id <= d.id).id + 1

RECURSIVE SelectSeq2(_, _)
SelectSeq2(rows, keep) ==
    IF rows = <<>> THEN <<>>
    ELSE (IF Head(rows) \in keep THEN <<Head(rows)>> ELSE <<>>)
            \o SelectSeq2(Tail(rows), keep)

Rows(chs) == {chs[i] : i \in 1..Len(chs)}

\* delete(Chunk).where(Chunk.document_id == id)
delete_chunks_of(chs, document_id) ==
    SelectSeq2(chs, {r \in Rows(chs) : r.document_id # document_id})

\* Document.indexed_at orders the rows; it is kept as the rank of the row's
\* timestamp among the stored ones (1 is the oldest)
without_rank(docs, rank) ==
    {[d EXCEPT !.indexed_at = IF @ > rank THEN @ - 1 ELSE @] : d \in docs}

\* add_document: the document row returned
add_document_row(docs, file_path, content) ==
    LET existing_doc == get_document(docs, file_path)
    IN IF existing_doc # NoDocument
       THEN IF existing_doc.checksum # compute_checksum(content)
            THEN [existing_doc EXCEPT !.checksum = compute_checksum(content),
                                      !.indexed_at = Cardinality(docs)]
            ELSE existing_doc
       ELSE [id |-> NextDocumentId(docs),
             file_path |-> file_path,
             checksum |-> compute_checksum(content),
             indexed_at |-> Cardinality(docs) + 1]

\* add_document: the documents table afterwards
add_document_docs(docs, file_path, content) ==
    LET existing_doc == get_document(docs, file_path)
        row == add_document_row(docs, file_path, content)
    IN IF existing_doc # NoDocument /\ row # existing_doc
       THEN without_rank(docs \ {existing_doc}, existing_doc.indexed_at) \cup {row}
       ELSE docs \cup {row}

\* list_documents: the rows, the last indexed first
list_documents(docs) ==
    [k \in 1..Cardinality(docs) |->
        CHOOSE d \in docs : d.indexed_at = Cardinality(docs) - k + 1]

\* add_document: the chunks table afterwards; the old chunks are deleted
\* in the branch where the stored checksum differs
add_document_chunks(docs, chs, file_path, content) ==
    LET existing_doc == get_document(docs, file_path)
    IN IF existing_doc # NoDocument
          /\ existing_doc.checksum # compute_checksum(content)
       THEN delete_chunks_of(chs, existing_doc.id)
       ELSE chs

\* f"doc_{document.id}_chunk_{i}"
EmbeddingId(document_id, i) == <<"doc", document_id, "chunk", i>>

\* add_chunks: one row per chunk, chunk_index from enumerate
add_chunks(chs, document_id, new_chunks) ==
    chs \o [i \in 1..Len(new_chunks) |->
                [document_id |-> document_id,
                 chunk_index |-> i - 1,
                 text |-> new_chunks[i].text,
                 start_char |-> new_chunks[i].start_char,
                 end_char |-> new_chunks[i].end_char,
                 embedding_id |-> new_chunks[i].embedding_id]]

\* get_chunks: the rows of a document ordered by chunk_index
get_chunks(chs, document_id) ==
    LET mine == {i \in 1..Len(chs) : chs[i].document_id = document_id}
        before(i, j) == \/ chs[i].chunk_index < chs[j].chunk_index
                        \/ chs[i].chunk_index = chs[j].chunk_index /\ i < j
    IN [k \in 1..Cardinality(mine) |->
          chs[CHOOSE i \in mine : Cardinality({j \in mine : before(j, i)}) = k - 1]]

\* DocumentStore.delete_document: the row and, by the cascade, its chunks
delete_document_docs(docs, file_path) ==
    IF get_document(docs, file_path) = NoDocument THEN docs
    ELSE without_rank(docs \ {get_document(docs, file_path)},
                      get_document(docs, file_path).indexed_at)

delete_document_chunks(docs, chs, file_path) ==
    IF get_document(docs, file_path) = NoDocument THEN chs
    ELSE delete_chunks_of(chs, get_document(docs, file_path).id)

----------------------------------------------------------------------------
(* State                                                                    *)

VARIABLES
    files,          \* the file system: path -> [exists, text]
    documents,      \* metadata store: the documents table
    chunks,         \* metadata store: the chunks table
    index,          \* VectorStore.index
    id_map,         \* VectorStore.id_map
    index_file,     \* faiss.index on disk
    id_map_file,    \* id_map.pkl on disk
    last_call,      \* the last completed pipeline call and what it returned
    retired,        \* history: the (embedding_id, text) of the passages removed
    tasks,          \* the coroutines using the vector store, suspended or idle
    save_pc,        \* the position of a save() in its file operations
    crashed,        \* the process died
    disk_before,    \* history: the two files when the running save() began
    bm25_index,     \* HybridRetriever.bm25_index
    chunk_texts,    \* HybridRetriever.chunk_texts
    chunk_ids,      \* HybridRetriever.chunk_ids
    rebuild,        \* the running rebuild_bm25_index: its documents still to read
    bm25_results,   \* the lexical candidates of the last search
    disk,           \* the state of the disk under the index directory
    dir_run,        \* the running ingest_directory: its listing and its results
    file_run,       \* an ingest_file call taken step by step: its position
    reranker,       \* HybridRetriever.reranker: whether a cross-encoder is loaded
    search_run,      \* the last HybridRetriever.search: its inputs and results
    chunk_run,      \* one call of TextChunker.chunk_text and its window loop
    deduplicator,   \* one Deduplicator instance: seen_hashes and the keys of lsh
    dedup_call,     \* the last call on the instance and what it returned
    coroutines      \* the coroutines the watcher scheduled on the event loop

pipeline_vars == <<files, documents, chunks, last_call, retired>>
store_vars == <<index, id_map, index_file, id_map_file>>
task_vars == <<tasks>>
crash_vars == <<save_pc, crashed, disk_before>>
lex_vars == <<bm25_index, chunk_texts, chunk_ids, rebuild, bm25_results>>
env_vars == <<disk>>
dir_vars == <<dir_run>>
step_vars == <<file_run>>
search_vars == <<reranker, search_run>>
chunk_vars == <<chunk_run>>
dedup_vars == <<deduplicator, dedup_call>>
watch_vars == <<coroutines>>
vars == <<files, documents, chunks, index, id_map, index_file, id_map_file,
          last_call, retired, tasks, save_pc, crashed, disk_before,
          bm25_index, chunk_texts, chunk_ids, rebuild, bm25_results, disk,
          dir_run, file_run, reranker, search_run, chunk_run,
          deduplicator, dedup_call, coroutines>>

----------------------------------------------------------------------------
(* Inputs of the pipeline                                                   *)

MaxVectors == 4

Sentence(c, n) == Rep(c, n - 1) \o <<".">>

\* one sentence, one chunk
TextOne == Sentence("a", 120)
\* three sentences, two chunks
TextTwo == Sentence("b", 200) \o <<" ">> \o Sentence("c", 200) \o <<" ">> \o Sentence("d", 200)
\* one sentence and the newline that ends the file
TextLine == Sentence("e", 130) \o <<"\n">>
\* shorter than min_chunk_size
TextShort == <<"H", "i", ".">>

FileTexts == {TextOne, TextTwo, TextLine, TextShort, <<>>}

PathA == [stem |-> "a", suffix |-> ".txt"]
PathB == [stem |-> "b", suffix |-> ".md"]
AllPaths == {PathA, PathB}

\* a file no parser takes, and a subdirectory of the ingested directory
PathC == [stem |-> "c", suffix |-> ".bin"]
SubDir == [stem |-> "sub", suffix |-> ""]
FilePaths == AllPaths \cup {PathC}

\* the paths of the sequential pipeline runs
Paths == {PathA}

ParserSuffixes == {".pdf", ".txt", ".md", ".markdown", ".docx", ".csv"}

\* get_parser: a parser for the suffix, or none
has_parser(file_path) == file_path.suffix \in ParserSuffixes

\* the preprocessed text and the retained chunks of every input text,
\* computed once
ProcessedText == [t \in FileTexts |-> process(t)] @@ EmptyMap
RetainedChunks ==
    [t \in FileTexts |->
        deduplicate_chunks(chunk_text(process(t), PipelineChunkConfig))] @@ EmptyMap

Tasks == {1, 2}
IdleTask == [pc |-> "idle"]
NoBM25 == [built |-> FALSE]
NoRebuild == [pc |-> "idle"]

NoDirRun == [pc |-> "idle"]
NoFileRun == [pc |-> "idle"]
NoSearch == [pc |-> "none"]
NoChunkRun == [pc |-> "idle"]
\* Deduplicator.__init__ (lines 19-29)
NewDeduplicator == [seen_hashes |-> {}, lsh |-> {}, exact_texts |-> {}]
NoDedupCall == [op |-> "none"]
\* the slots for the coroutines of run_coroutine_threadsafe
Scheduled == {1, 2}
NoCoroutine == [kind |-> "none", pc |-> "none"]

NoCall == [op |-> "none", path |-> "", force |-> FALSE, text |-> <<>>, status |-> ""]

----------------------------------------------------------------------------
(* IngestionPipeline                                                        *)

\* VectorStore.save(): both files written; when a write raises, save() logs
\* the error and returns (lines 57-58).  On a full disk the index file is
\* opened, which truncates it, and the write raises; on a read-only disk the
\* open raises
DiskStates == {"ok", "full", "read_only"}

SaveFiles ==
    IF disk = "ok"
    THEN /\ index_file' = write_index(index')
         /\ id_map_file' = pickle_dump(id_map')
    ELSE /\ index_file' = IF disk = "full" THEN PartialFile ELSE index_file
         /\ id_map_file' = id_map_file

\* the outcome of ingest_file for a file and the stored document of its path
ingest_status(f, file_path, force, doc, new_chunks) ==
    IF ~f.exists THEN "error"
    ELSE IF ~has_parser(file_path) THEN "skipped"
    ELSE IF f.text = <<>> THEN "skipped"
    ELSE IF ~force /\ doc # NoDocument /\ doc.checksum = compute_checksum(f.text)
    THEN "unchanged"
    ELSE IF new_chunks = <<>> THEN "error"
    ELSE "success"

\* ingest_file reaches add_document
reaches_store(f, file_path, force, doc) ==
    /\ f.exists /\ has_parser(file_path) /\ f.text # <<>>
    /\ ~(~force /\ doc # NoDocument /\ doc.checksum = compute_checksum(f.text))

ingest_file(file_path, force) ==
    LET f == files[file_path]
        doc == get_document(documents, file_path)
        processed_text == ProcessedText[f.text]
        document == add_document_row(documents, file_path, processed_text)
        new_chunks == RetainedChunks[f.text]
        embedding_ids == [i \in 1..Len(new_chunks) |-> EmbeddingId(document.id, i - 1)]
        chunk_texts_ == [i \in 1..Len(new_chunks) |-> new_chunks[i].text]
        metadata == [i \in 1..Len(new_chunks) |-> [document_id |-> document.id]]
        stored == [i \in 1..Len(new_chunks) |->
                     [text |-> new_chunks[i].text,
                      start_char |-> new_chunks[i].start_char,
                      end_char |-> new_chunks[i].end_char,
                      embedding_id |-> embedding_ids[i]]]
        chs1 == add_document_chunks(documents, chunks, file_path, processed_text)
        status == ingest_status(f, file_path, force, doc, new_chunks)
    IN /\ last_call' = [op |-> "ingest_file", path |-> file_path, force |-> force,
                        text |-> f.text, status |-> status]
       /\ UNCHANGED <<files, task_vars, crash_vars, lex_vars, env_vars, step_vars, search_vars, chunk_vars, dedup_vars, watch_vars>>
       /\ IF ~reaches_store(f, file_path, force, doc)
          THEN UNCHANGED <<documents, chunks, retired, store_vars>>
          ELSE /\ documents' = add_document_docs(documents, file_path, processed_text)
               /\ retired' = retired \cup
                     {[embedding_id |-> r.embedding_id, text |-> r.text] :
                         r \in Rows(chunks) \ Rows(chs1)}
               /\ IF new_chunks = <<>>
                  THEN /\ chunks' = chs1
                       /\ UNCHANGED store_vars
                  ELSE /\ ntotal(index) + Len(new_chunks) <= MaxVectors
                       /\ index' = index_add(index, embed_batch(chunk_texts_))
                       /\ id_map' = id_map_update(id_map, ntotal(index),
                                                  embedding_ids, metadata)
                       /\ chunks' = add_chunks(chs1, document.id, stored)
                       /\ SaveFiles

\* a call of ingest_file on its own
IngestFile(file_path, force) ==
    /\ ingest_file(file_path, force)
    /\ UNCHANGED dir_vars

\* IngestionPipeline.delete_document
DeleteDocument(file_path) ==
    LET doc == get_document(documents, file_path)
        rows == get_chunks(chunks, doc.id)
        embedding_ids == [i \in 1..Len(rows) |-> rows[i].embedding_id]
    IN /\ UNCHANGED <<files, task_vars, crash_vars, lex_vars, env_vars, dir_vars, step_vars, search_vars, chunk_vars, dedup_vars, watch_vars>>
       /\ IF doc = NoDocument
          THEN /\ last_call' = [op |-> "delete_document", path |-> file_path,
                                force |-> FALSE, text |-> <<>>, status |-> "false"]
               /\ UNCHANGED <<documents, chunks, retired, store_vars>>
          ELSE /\ last_call' = [op |-> "delete_document", path |-> file_path,
                                force |-> FALSE, text |-> <<>>, status |-> "true"]
               /\ IF embedding_ids # <<>>
                  THEN /\ index' = remove_index(index, id_map, embedding_ids)
                       /\ id_map' = remove_id_map(index, id_map, embedding_ids)
                       /\ SaveFiles
                  ELSE UNCHANGED store_vars
               /\ documents' = delete_document_docs(documents, file_path)
               /\ chunks' = delete_document_chunks(documents, chunks, file_path)
               /\ retired' = retired \cup
                     {[embedding_id |-> rows[i].embedding_id, text |-> rows[i].text] :
                         i \in 1..Len(rows)}

\* the environment writes or removes a file
WriteFile(file_path, text) ==
    /\ files[file_path] # [exists |-> TRUE, text |-> text]
    /\ files' = [files EXCEPT ![file_path] = [exists |-> TRUE, text |-> text]]
    /\ UNCHANGED <<documents, chunks, last_call, retired, store_vars,
                   task_vars, crash_vars, lex_vars, env_vars, dir_vars, step_vars, search_vars, chunk_vars, dedup_vars, watch_vars>>

RemoveFile(file_path) ==
    /\ files[file_path].exists
    /\ files' = [files EXCEPT ![file_path] = [exists |-> FALSE, text |-> <<>>]]
    /\ UNCHANGED <<documents, chunks, last_call, retired, store_vars,
                   task_vars, crash_vars, lex_vars, env_vars, dir_vars, step_vars, search_vars, chunk_vars, dedup_vars, watch_vars>>

Init ==
    /\ files = [p \in FilePaths |-> [exists |-> FALSE, text |-> <<>>]]
    /\ documents = {}
    /\ chunks = <<>>
    /\ index = <<>>
    /\ id_map = EmptyMap
    /\ index_file = NoFile
    /\ id_map_file = NoFile
    /\ last_call = NoCall
    /\ retired = {}
    /\ tasks = [t \in Tasks |-> IdleTask]
    /\ save_pc = "idle"
    /\ crashed = FALSE
    /\ disk_before = <<NoFile, NoFile>>
    /\ bm25_index = NoBM25
    /\ chunk_texts = <<>>
    /\ chunk_ids = <<>>
    /\ rebuild = NoRebuild
    /\ bm25_results = <<>>
    /\ disk = "ok"
    /\ dir_run = NoDirRun
    /\ file_run = NoFileRun
    /\ reranker = FALSE
    /\ search_run = NoSearch
    /\ chunk_run = NoChunkRun
    /\ deduplicator = NewDeduplicator
    /\ dedup_call = NoDedupCall
    /\ coroutines = [c \in Scheduled |-> NoCoroutine]

Next ==
    \/ \E p \in Paths, t \in FileTexts : WriteFile(p, t)
    \/ \E p \in Paths : RemoveFile(p)
    \/ \E p \in Paths, force \in BOOLEAN : IngestFile(p, force)
    \/ \E p \in Paths : DeleteDocument(p)

Spec == Init /\ [][Next]_vars

----------------------------------------------------------------------------
(* The vector store under concurrent coroutines of one event loop.  A       *)
(* coroutine runs until its next await: add_embeddings and search suspend   *)
(* at the embedding call only, remove_embeddings and save never suspend.    *)

\* the passages added to the store: an id always comes with the same text
StoreItems ==
    {[text |-> <<"x">>, id |-> EmbeddingId(1, 0),
      metadata |-> [document_id |-> 1, chunk_index |-> 0]],
     [text |-> <<"y", "y">>, id |-> EmbeddingId(1, 1),
      metadata |-> [document_id |-> 1, chunk_index |-> 1]],
     [text |-> <<"z", "z", "z">>, id |-> EmbeddingId(2, 0),
      metadata |-> [document_id |-> 2, chunk_index |-> 0]]}

\* the passages the concurrent coroutines add
VSItems == {a \in StoreItems : a.metadata.document_id = 1}

VSBatches ==
    {<<>>} \cup {<<a>> : a \in VSItems}
           \cup {<<a, b>> : a \in VSItems, b \in VSItems}

VSIdLists ==
    {<<>>, <<EmbeddingId(1, 0)>>, <<EmbeddingId(1, 1)>>, <<EmbeddingId(3, 0)>>,
     <<EmbeddingId(1, 1), EmbeddingId(1, 0)>>}

\* the largest index the coroutines build
MaxSlots == 3

VSQueries == {<<"x">>, <<"q", "q", "q">>}
VSTopK == {1, 3}

ItemOfId(id) == CHOOSE a \in StoreItems : a.id = id

Field(batch, name) == [i \in 1..Len(batch) |-> batch[i][name]]

\* add_embeddings up to its await of embed_batch (lines 67-71)
VSAddCall(t, batch) ==
    /\ tasks[t].pc = "idle"
    /\ IF batch = <<>>
       THEN UNCHANGED tasks
       ELSE tasks' = [tasks EXCEPT ![t] =
                [pc |-> "add_embeddings", texts |-> Field(batch, "text"),
                 embedding_ids |-> Field(batch, "id"),
                 metadata |-> Field(batch, "metadata")]]
    /\ UNCHANGED <<pipeline_vars, store_vars, crash_vars, lex_vars, env_vars, dir_vars, step_vars, search_vars, chunk_vars, dedup_vars, watch_vars>>

\* an add_embeddings that reads the next slot before its await: the slots of
\* the id map start where the index ended when the call was made
VSAddResume_stale_start(t) ==
    /\ tasks[t].pc = "add_embeddings"
    /\ ntotal(index) + Len(tasks[t].texts) <= MaxSlots
    /\ \E start_idx \in 0..ntotal(index) :
          /\ index' = index_add(index, embed_batch(tasks[t].texts))
          /\ id_map' = id_map_update(id_map, start_idx, tasks[t].embedding_ids,
                                     tasks[t].metadata)
    /\ tasks' = [tasks EXCEPT ![t] = IdleTask]
    /\ UNCHANGED <<pipeline_vars, index_file, id_map_file, crash_vars, lex_vars, env_vars, dir_vars, step_vars, search_vars, chunk_vars, dedup_vars, watch_vars>>

\* add_embeddings from the return of embed_batch to its end (lines 72-88)
VSAddResume(t) ==
    /\ tasks[t].pc = "add_embeddings"
    /\ ntotal(index) + Len(tasks[t].texts) <= MaxSlots
    /\ LET embeddings == embed_batch(tasks[t].texts)
           start_idx == ntotal(index)
       IN /\ index' = index_add(index, embeddings)
          /\ id_map' = id_map_update(id_map, start_idx, tasks[t].embedding_ids,
                                     tasks[t].metadata)
    /\ tasks' = [tasks EXCEPT ![t] = IdleTask]
    /\ UNCHANGED <<pipeline_vars, index_file, id_map_file, crash_vars, lex_vars, env_vars, dir_vars, step_vars, search_vars, chunk_vars, dedup_vars, watch_vars>>

\* remove_embeddings, which has no await
remove_embeddings(embedding_ids) ==
    /\ index' = remove_index(index, id_map, embedding_ids)
    /\ id_map' = remove_id_map(index, id_map, embedding_ids)

VSRemove(t, embedding_ids) ==
    /\ tasks[t].pc = "idle"
    /\ remove_embeddings(embedding_ids)
    /\ UNCHANGED <<pipeline_vars, index_file, id_map_file, task_vars,
                   crash_vars, lex_vars, env_vars, dir_vars, step_vars, search_vars, chunk_vars, dedup_vars, watch_vars>>

\* search up to its await of embed (lines 96-99)
VSSearchCall(t, query, top_k) ==
    /\ tasks[t].pc = "idle"
    /\ IF ntotal(index) = 0
       THEN UNCHANGED tasks
       ELSE tasks' = [tasks EXCEPT ![t] =
                [pc |-> "search", query |-> query, top_k |-> top_k]]
    /\ UNCHANGED <<pipeline_vars, store_vars, crash_vars, lex_vars, env_vars, dir_vars, step_vars, search_vars, chunk_vars, dedup_vars, watch_vars>>

\* search from the return of embed to its end (lines 100-117): it reads the
\* index and the id map (vector_search) and hands the results to its caller
VSSearchResume(t) ==
    /\ tasks[t].pc = "search"
    /\ tasks' = [tasks EXCEPT ![t] = IdleTask]
    /\ UNCHANGED <<pipeline_vars, store_vars, crash_vars, lex_vars, env_vars, dir_vars, step_vars, search_vars, chunk_vars, dedup_vars, watch_vars>>

\* save, which has no await
VSSave(t) ==
    /\ tasks[t].pc = "idle"
    /\ UNCHANGED <<index, id_map>>
    /\ SaveFiles
    /\ UNCHANGED <<pipeline_vars, task_vars, crash_vars, lex_vars, env_vars, dir_vars, step_vars, search_vars, chunk_vars, dedup_vars, watch_vars>>

NextVS ==
    \/ \E t \in Tasks, batch \in VSBatches : VSAddCall(t, batch)
    \/ \E t \in Tasks : VSAddResume(t)
    \/ \E t \in Tasks, embedding_ids \in VSIdLists : VSRemove(t, embedding_ids)
    \/ \E t \in Tasks, query \in VSQueries, top_k \in VSTopK :
            VSSearchCall(t, query, top_k)
    \/ \E t \in Tasks : VSSearchResume(t)
    \/ \E t \in Tasks : VSSave(t)

SpecVS == Init /\ [][NextVS]_vars

----------------------------------------------------------------------------
(* The vector store used by one caller at a time: whole calls of            *)
(* add_embeddings and remove_embeddings, each recorded in last_call.        *)

Batches ==
    {<<a>> : a \in StoreItems} \cup {<<a, b>> : a \in StoreItems, b \in StoreItems}

IdLists ==
    {<<>>, <<EmbeddingId(1, 0)>>, <<EmbeddingId(1, 1)>>, <<EmbeddingId(2, 0)>>,
     <<EmbeddingId(3, 0)>>, <<EmbeddingId(1, 1), EmbeddingId(1, 0)>>,
     <<EmbeddingId(2, 0), EmbeddingId(3, 0)>>}

\* add_embeddings when nothing runs during its await (lines 60-88)
add_embeddings(batch) ==
    LET embeddings == embed_batch(Field(batch, "text"))
        start_idx == ntotal(index)
    IN /\ index' = index_add(index, embeddings)
       /\ id_map' = id_map_update(id_map, start_idx, Field(batch, "id"),
                                  Field(batch, "metadata"))

AddEmbeddings(batch) ==
    /\ ntotal(index) + Len(batch) <= MaxSlots
    /\ add_embeddings(batch)
    /\ last_call' = [op |-> "add_embeddings", added |-> Len(batch)]
    /\ UNCHANGED <<files, documents, chunks, retired, index_file, id_map_file,
                   task_vars, crash_vars, lex_vars, env_vars, dir_vars, step_vars, search_vars, chunk_vars, dedup_vars, watch_vars>>

RemoveEmbeddings(embedding_ids) ==
    /\ remove_embeddings(embedding_ids)
    /\ last_call' = [op |-> "remove_embeddings", embedding_ids |-> embedding_ids,
                     removed |-> Cardinality(indices_to_remove(id_map, embedding_ids))]
    /\ UNCHANGED <<files, documents, chunks, retired, index_file, id_map_file,
                   task_vars, crash_vars, lex_vars, env_vars, dir_vars, step_vars, search_vars, chunk_vars, dedup_vars, watch_vars>>

NextRebuild ==
    \/ \E batch \in Batches : AddEmbeddings(batch)
    \/ \E embedding_ids \in IdLists : RemoveEmbeddings(embedding_ids)

SpecRebuild == Init /\ [][NextRebuild]_vars

----------------------------------------------------------------------------
(* Persistence.  save() is two file writes, each an open that truncates the *)
(* file and then the write of its content; the process can die between any  *)
(* two of them, and a new process then initializes from the directory.      *)

\* the largest index that is saved
MaxSaved == 2

Running == save_pc = "idle" /\ ~crashed

StoreAdd(batch) ==
    /\ Running
    /\ ntotal(index) + Len(batch) <= MaxSaved
    /\ add_embeddings(batch)
    /\ UNCHANGED <<pipeline_vars, index_file, id_map_file, task_vars,
                   crash_vars, lex_vars, env_vars, dir_vars, step_vars, search_vars, chunk_vars, dedup_vars, watch_vars>>

StoreRemove(embedding_ids) ==
    /\ Running
    /\ remove_embeddings(embedding_ids)
    /\ UNCHANGED <<pipeline_vars, index_file, id_map_file, task_vars,
                   crash_vars, lex_vars, env_vars, dir_vars, step_vars, search_vars, chunk_vars, dedup_vars, watch_vars>>

\* faiss.write_index opens the index file for writing (line 53)
SaveOpenIndex ==
    /\ Running
    /\ disk_before' = <<index_file, id_map_file>>
    /\ index_file' = PartialFile
    /\ save_pc' = "index_open"
    /\ UNCHANGED <<pipeline_vars, index, id_map, id_map_file, crashed,
                   task_vars, lex_vars, env_vars, dir_vars, step_vars, search_vars, chunk_vars, dedup_vars, watch_vars>>

\* faiss.write_index writes the index and closes the file (line 53)
SaveWriteIndex ==
    /\ save_pc = "index_open" /\ ~crashed
    /\ index_file' = write_index(index)
    /\ save_pc' = "index_written"
    /\ UNCHANGED <<pipeline_vars, index, id_map, id_map_file, crashed,
                   disk_before, task_vars, lex_vars, env_vars, dir_vars, step_vars, search_vars, chunk_vars, dedup_vars, watch_vars>>

\* open(self.id_map_path, "wb") (line 54)
SaveOpenIdMap ==
    /\ save_pc = "index_written" /\ ~crashed
    /\ id_map_file' = PartialFile
    /\ save_pc' = "id_map_open"
    /\ UNCHANGED <<pipeline_vars, index, id_map, index_file, crashed,
                   disk_before, task_vars, lex_vars, env_vars, dir_vars, step_vars, search_vars, chunk_vars, dedup_vars, watch_vars>>

\* pickle.dump and the close of the file (lines 55-56)
SaveWriteIdMap ==
    /\ save_pc = "id_map_open" /\ ~crashed
    /\ id_map_file' = pickle_dump(id_map)
    /\ save_pc' = "idle"
    /\ disk_before' = <<NoFile, NoFile>>
    /\ UNCHANGED <<pipeline_vars, index, id_map, index_file, crashed,
                   task_vars, lex_vars, env_vars, dir_vars, step_vars, search_vars, chunk_vars, dedup_vars, watch_vars>>

\* the process dies; what it held in memory is kept here as history only
Crash ==
    /\ ~crashed
    /\ crashed' = TRUE
    /\ UNCHANGED <<pipeline_vars, store_vars, save_pc, disk_before,
                   task_vars, lex_vars, env_vars, dir_vars, step_vars, search_vars, chunk_vars, dedup_vars, watch_vars>>

\* a new process: VectorStore.initialize (lines 27-36) on the same directory
Initialize ==
    /\ crashed
    /\ crashed' = FALSE
    /\ save_pc' = "idle"
    /\ disk_before' = <<NoFile, NoFile>>
    /\ index' = load_index(index_file, id_map_file)
    /\ id_map' = load_id_map(index_file, id_map_file)
    /\ UNCHANGED <<pipeline_vars, index_file, id_map_file, task_vars, lex_vars, env_vars, dir_vars, step_vars, search_vars, chunk_vars, dedup_vars, watch_vars>>

NextPersist ==
    \/ \E batch \in VSBatches \ {<<>>} : StoreAdd(batch)
    \/ \E embedding_ids \in VSIdLists : StoreRemove(embedding_ids)
    \/ SaveOpenIndex
    \/ SaveWriteIndex
    \/ SaveOpenIdMap
    \/ SaveWriteIdMap
    \/ Crash
    \/ Initialize

SpecPersist == Init /\ [][NextPersist]_vars

----------------------------------------------------------------------------
(* The lexical index of HybridRetriever.  rebuild_bm25_index suspends at    *)
(* list_documents and at the get_chunks of each document; the BM25 part of  *)
(* search has no await and runs whenever the rebuild is suspended.          *)

Lower(c) == IF c = "H" THEN "h" ELSE c

\* text.lower().split(): the maximal runs of non-whitespace characters
RECURSIVE tokens_from(_, _)
tokens_from(text, i) ==
    IF \A k \in i..Len(text) : text[k] \in Whitespace THEN <<>>
    ELSE LET first == CHOOSE k \in i..Len(text) :
                        /\ text[k] \notin Whitespace
                        /\ \A j \in i..(k - 1) : text[j] \in Whitespace
             last == CHOOSE k \in first..Len(text) :
                        /\ \A j \in first..k : text[j] \notin Whitespace
                        /\ (k = Len(text) \/ text[k + 1] \in Whitespace)
         IN << [k \in 1..(last - first + 1) |-> Lower(text[first + k - 1])] >>
                \o tokens_from(text, last + 1)

Tokenize(text) == tokens_from(text, 1)

\* the scoring structure built from a corpus
BM25Okapi(tokenized_corpus) == [built |-> TRUE, corpus |-> tokenized_corpus]

\* get_scores, as the number of occurrences of the query's tokens in each
\* passage (the weights of BM25 are left out)
get_scores(bm25, tokenized_query) ==
    [i \in 1..Len(bm25.corpus) |->
        Cardinality({<<j, k>> \in (1..Len(tokenized_query)) \X (1..Len(bm25.corpus[i])) :
                        tokenized_query[j] = bm25.corpus[i][k]})]

\* np.argsort(scores)[-n:][::-1]: the n best positions, best first, equal
\* scores in descending position
top_indices(scores, n) ==
    LET rank(i) == Cardinality({j \in 1..Len(scores) :
                        \/ scores[j] > scores[i]
                        \/ scores[j] = scores[i] /\ j > i})
    IN [r \in 1..Min(n, Len(scores)) |->
            CHOOSE i \in 1..Len(scores) : rank(i) = r - 1]

\* search, lines 86-98: the candidates of the lexical index
RECURSIVE bm25_candidates(_, _, _)
bm25_candidates(scores, ids, positions) ==
    IF positions = <<>> THEN <<>>
    ELSE (IF Head(positions) <= Len(ids)
          THEN << <<ids[Head(positions)], scores[Head(positions)]>> >>
          ELSE <<>>) \o bm25_candidates(scores, ids, Tail(positions))

\* a lexical search that answers from a snapshot that was never built
bm25_search_unbuilt(bm25, texts, ids, query, top_k) ==
    IF bm25.built /\ texts # <<>>
    THEN bm25_candidates(get_scores(bm25, Tokenize(query)), ids,
                         top_indices(get_scores(bm25, Tokenize(query)), top_k * 2))
    ELSE << <<EmbeddingId(1, 0), 1>> >>

bm25_search(bm25, texts, ids, query, top_k) ==
    IF bm25.built /\ texts # <<>>
    THEN bm25_candidates(get_scores(bm25, Tokenize(query)), ids,
                         top_indices(get_scores(bm25, Tokenize(query)), top_k * 2))
    ELSE <<>>

\* the files of the corpus the retriever serves
LexText(file_path) == IF file_path = PathA THEN TextOne ELSE TextTwo
LexQueries == {TextOne, Sentence("c", 200)}
LexTopK == {1}

\* rebuild_bm25_index up to its await of list_documents (lines 48-51)
RebuildList ==
    /\ rebuild.pc = "idle"
    /\ rebuild' = [pc |-> "listed", docs |-> list_documents(documents)]
    /\ UNCHANGED <<pipeline_vars, store_vars, task_vars, crash_vars, env_vars, dir_vars, step_vars, search_vars, chunk_vars, dedup_vars, watch_vars,
                   bm25_index, chunk_texts, chunk_ids, bm25_results>>

\* the end of rebuild_bm25_index (lines 62-69)
rebuild_finish(texts) ==
    IF texts # <<>>
    THEN BM25Okapi([i \in 1..Len(texts) |-> Tokenize(texts[i])])
    ELSE NoBM25

\* from the return of list_documents to the first get_chunks (lines 53-57)
RebuildClear ==
    /\ rebuild.pc = "listed"
    /\ chunk_texts' = <<>>
    /\ chunk_ids' = <<>>
    /\ IF rebuild.docs = <<>>
       THEN /\ bm25_index' = rebuild_finish(<<>>)
            /\ rebuild' = NoRebuild
       ELSE /\ rebuild' = [rebuild EXCEPT !.pc = "reading"]
            /\ UNCHANGED bm25_index
    /\ UNCHANGED <<pipeline_vars, store_vars, task_vars, crash_vars, env_vars,
                   dir_vars, step_vars, search_vars, chunk_vars, dedup_vars, watch_vars, bm25_results>>

\* a get_chunks and what follows it up to the next await (lines 57-60), and
\* after the last document to the end (lines 62-69)
RebuildRead ==
    /\ rebuild.pc = "reading"
    /\ LET rows == get_chunks(chunks, Head(rebuild.docs).id)
           texts == chunk_texts \o [i \in 1..Len(rows) |-> rows[i].text]
           ids == chunk_ids \o [i \in 1..Len(rows) |-> rows[i].embedding_id]
       IN /\ chunk_texts' = texts
          /\ chunk_ids' = ids
          /\ IF Tail(rebuild.docs) = <<>>
             THEN /\ bm25_index' = rebuild_finish(texts)
                  /\ rebuild' = NoRebuild
             ELSE /\ rebuild' = [rebuild EXCEPT !.docs = Tail(rebuild.docs)]
                  /\ UNCHANGED bm25_index
    /\ UNCHANGED <<pipeline_vars, store_vars, task_vars, crash_vars, env_vars,
                   dir_vars, step_vars, search_vars, chunk_vars, dedup_vars, watch_vars, bm25_results>>

\* the lexical part of HybridRetriever.search (lines 86-98)
LexSearch(query, top_k) ==
    /\ bm25_results' = bm25_search(bm25_index, chunk_texts, chunk_ids, query, top_k)
    /\ UNCHANGED <<pipeline_vars, store_vars, task_vars, crash_vars, env_vars, dir_vars, step_vars, search_vars, chunk_vars, dedup_vars, watch_vars,
                   bm25_index, chunk_texts, chunk_ids, rebuild>>

NextLex ==
    \/ \E p \in AllPaths : WriteFile(p, LexText(p))
    \/ \E p \in AllPaths : IngestFile(p, FALSE)
    \/ RebuildList
    \/ RebuildClear
    \/ RebuildRead
    \/ \E query \in LexQueries, top_k \in LexTopK : LexSearch(query, top_k)

SpecLex == Init /\ [][NextLex]_vars

----------------------------------------------------------------------------
(* The pipeline on a disk that can fail under the index directory.          *)

DiskChange(d) ==
    /\ d # disk
    /\ disk' = d
    /\ UNCHANGED <<pipeline_vars, store_vars, task_vars, crash_vars, lex_vars,
                   dir_vars, step_vars, search_vars, chunk_vars, dedup_vars, watch_vars>>

NextDisk ==
    \/ \E p \in Paths, text \in {TextOne, TextTwo} : WriteFile(p, text)
    \/ \E p \in Paths : IngestFile(p, FALSE)
    \/ \E p \in Paths : DeleteDocument(p)
    \/ \E d \in DiskStates : DiskChange(d)

SpecDisk == Init /\ [][NextDisk]_vars

----------------------------------------------------------------------------
(* ingest_directory: the listing is taken first, then ingest_file is        *)
(* awaited for one entry after the other.                                   *)

DirEntries == AllPaths \cup {SubDir}

is_file(fs, entry) == entry \in DOMAIN fs /\ fs[entry].exists

\* the orders in which rglob can list a set of entries
Listings(entries) ==
    {l \in [1..Cardinality(entries) -> entries] :
        \A i, j \in DOMAIN l : i # j => l[i] # l[j]}

NoResults == [total |-> 0, success |-> 0, skipped |-> 0, failed |-> 0, files |-> <<>>]

\* lines 176-187: the outcome of one file added to the results
tally(results, file_path, status) ==
    [results EXCEPT
        !.files = Append(@, [path |-> file_path, status |-> status]),
        !.success = IF status = "success" THEN @ + 1 ELSE @,
        !.skipped = IF status \in {"skipped", "unchanged"} THEN @ + 1 ELSE @,
        !.failed = IF status \notin {"success", "skipped", "unchanged"} THEN @ + 1 ELSE @]

\* lines 151-166: the files found
DirStart ==
    /\ dir_run.pc # "running"
    /\ \E listing \in Listings({e \in DirEntries : e = SubDir \/ is_file(files, e)}) :
          dir_run' = [pc |-> "running", listing |-> listing, pending |-> listing,
                      results |-> [NoResults EXCEPT !.total = Len(listing)]]
    /\ UNCHANGED <<pipeline_vars, store_vars, task_vars, crash_vars, lex_vars, env_vars, step_vars, search_vars, chunk_vars, dedup_vars, watch_vars>>

\* one round of the loop of lines 169-183
dir_next(run, results) ==
    [run EXCEPT !.pending = Tail(@), !.results = results,
                !.pc = IF Tail(run.pending) = <<>> THEN "done" ELSE "running"]

\* a round that stops the batch at the first file that fails
DirStep_stop_on_failure ==
    /\ dir_run.pc = "running"
    /\ dir_run.pending # <<>>
    /\ LET entry == Head(dir_run.pending)
       IN IF is_file(files, entry)
          THEN /\ ingest_file(entry, FALSE)
               /\ dir_run' =
                    IF last_call'.status = "error"
                    THEN [dir_run EXCEPT !.pending = <<>>, !.pc = "done"]
                    ELSE dir_next(dir_run, tally(dir_run.results, entry, last_call'.status))
          ELSE /\ dir_run' = dir_next(dir_run, dir_run.results)
               /\ UNCHANGED <<pipeline_vars, store_vars, task_vars, crash_vars,
                              lex_vars, env_vars, step_vars, search_vars, chunk_vars, dedup_vars, watch_vars>>

DirStep ==
    /\ dir_run.pc = "running"
    /\ dir_run.pending # <<>>
    /\ LET entry == Head(dir_run.pending)
       IN IF is_file(files, entry)
          THEN /\ ingest_file(entry, FALSE)
               /\ dir_run' = dir_next(dir_run,
                                tally(dir_run.results, entry, last_call'.status))
          ELSE /\ dir_run' = dir_next(dir_run, dir_run.results)
               /\ UNCHANGED <<pipeline_vars, store_vars, task_vars, crash_vars,
                              lex_vars, env_vars, step_vars, search_vars, chunk_vars, dedup_vars, watch_vars>>

DirTexts == {TextOne, TextShort}

NextDir ==
    \/ \E p \in AllPaths, text \in DirTexts :
            dir_run.pc # "running" /\ WriteFile(p, text)
    \/ DirStart
    \/ DirStep

SpecDir == Init /\ [][NextDir]_vars

(***************************************************************************)
(* ingest_file taken one awaited step at a time.  A step that awaits a     *)
(* parser, the metadata store or the embedding model either completes or   *)
(* raises; the handler's except clause turns a raise into status "error".  *)
(***************************************************************************)
StepTexts == {TextOne, TextLine, TextShort, <<>>}
StepPaths == {PathA, PathC}

StartedRun(file_path, force) ==
    [pc |-> "parse", path |-> file_path, force |-> force,
     found |-> files[file_path].exists, parsed |-> FALSE, text |-> <<>>,
     stored_checksum |-> <<>>, document_id |-> 0,
     steps |-> <<>>, raised |-> FALSE, status |-> "running"]

\* the call returns: its status, the steps it took, whether one raised
returned(run_, status, steps, raised) ==
    [run_ EXCEPT !.pc = "done", !.status = status,
                 !.steps = steps, !.raised = raised]

\* the passages of the run's document as they are stored
stored_chunks(document_id, new_chunks) ==
    [i \in 1..Len(new_chunks) |->
        [text |-> new_chunks[i].text,
         start_char |-> new_chunks[i].start_char,
         end_char |-> new_chunks[i].end_char,
         embedding_id |-> EmbeddingId(document_id, i - 1)]]

StepStart(file_path, force) ==
    /\ file_run.pc \in {"idle", "done"}
    /\ LET started == StartedRun(file_path, force)
       IN file_run' =
            IF ~files[file_path].exists
            THEN returned(started, "error", <<>>, FALSE)
            ELSE IF ~has_parser(file_path)
            THEN returned(started, "skipped", <<>>, FALSE)
            ELSE started
    /\ UNCHANGED <<pipeline_vars, store_vars, task_vars, crash_vars, lex_vars,
                   env_vars, dir_vars, search_vars, chunk_vars, dedup_vars, watch_vars>>

StepParse(ok) ==
    /\ file_run.pc = "parse"
    /\ LET text == files[file_run.path].text
           doc == get_document(documents, file_run.path)
           read == [file_run EXCEPT
                       !.parsed = TRUE, !.text = text,
                       !.stored_checksum =
                           IF doc = NoDocument THEN <<>> ELSE doc.checksum]
       IN file_run' =
            IF ~ok THEN returned(file_run, "error", <<>>, TRUE)
            ELSE IF text = <<>>
            THEN returned(read, "skipped", <<"parse">>, FALSE)
            ELSE IF /\ ~file_run.force
                    /\ doc # NoDocument
                    /\ doc.checksum = compute_checksum(text)
            THEN returned(read, "unchanged", <<"parse">>, FALSE)
            ELSE [read EXCEPT !.pc = "add_document",
                              !.steps = <<"parse", "process", "detect">>]
    /\ UNCHANGED <<pipeline_vars, store_vars, task_vars, crash_vars, lex_vars,
                   env_vars, dir_vars, search_vars, chunk_vars, dedup_vars, watch_vars>>

StepAddDocument(ok) ==
    /\ file_run.pc = "add_document"
    /\ LET file_path == file_run.path
           processed_text == ProcessedText[file_run.text]
           document == add_document_row(documents, file_path, processed_text)
           new_chunks == RetainedChunks[file_run.text]
           chs1 == add_document_chunks(documents, chunks, file_path,
                                       processed_text)
           steps == file_run.steps \o
                      <<"add_document", "chunk_text", "deduplicate_chunks">>
       IN IF ~ok
          THEN /\ file_run' = returned(file_run, "error", file_run.steps, TRUE)
               /\ UNCHANGED <<documents, chunks, retired>>
          ELSE /\ documents' = add_document_docs(documents, file_path,
                                                 processed_text)
               /\ chunks' = chs1
               /\ retired' = retired \cup
                     {[embedding_id |-> r.embedding_id, text |-> r.text] :
                         r \in Rows(chunks) \ Rows(chs1)}
               /\ file_run' =
                    IF new_chunks = <<>>
                    THEN returned(file_run, "error", steps, FALSE)
                    ELSE [file_run EXCEPT !.pc = "add_embeddings",
                                          !.document_id = document.id,
                                          !.steps = steps]
    /\ UNCHANGED <<files, last_call, store_vars, task_vars, crash_vars,
                   lex_vars, env_vars, dir_vars, search_vars, chunk_vars, dedup_vars, watch_vars>>

StepAddEmbeddings(ok) ==
    /\ file_run.pc = "add_embeddings"
    /\ LET new_chunks == RetainedChunks[file_run.text]
           stored == stored_chunks(file_run.document_id, new_chunks)
           texts == [i \in 1..Len(new_chunks) |-> new_chunks[i].text]
           embedding_ids == [i \in 1..Len(stored) |-> stored[i].embedding_id]
           metadata == [i \in 1..Len(new_chunks) |->
                           [document_id |-> file_run.document_id]]
       IN IF ~ok
          THEN /\ file_run' = returned(file_run, "error", file_run.steps, TRUE)
               /\ UNCHANGED <<index, id_map>>
          ELSE /\ ntotal(index) + Len(new_chunks) <= MaxVectors
               /\ index' = index_add(index, embed_batch(texts))
               /\ id_map' = id_map_update(id_map, ntotal(index),
                                          embedding_ids, metadata)
               /\ file_run' = [file_run EXCEPT
                                  !.pc = "add_chunks",
                                  !.steps = @ \o <<"add_embeddings">>]
    /\ UNCHANGED <<pipeline_vars, index_file, id_map_file, task_vars,
                   crash_vars, lex_vars, env_vars, dir_vars, search_vars, chunk_vars, dedup_vars, watch_vars>>

StepAddChunks(ok) ==
    /\ file_run.pc = "add_chunks"
    /\ IF ~ok
       THEN /\ file_run' = returned(file_run, "error", file_run.steps, TRUE)
            /\ UNCHANGED chunks
       ELSE /\ chunks' = add_chunks(chunks, file_run.document_id,
                            stored_chunks(file_run.document_id,
                                          RetainedChunks[file_run.text]))
            /\ file_run' = [file_run EXCEPT !.pc = "save",
                                            !.steps = @ \o <<"add_chunks">>]
    /\ UNCHANGED <<files, documents, last_call, retired, store_vars, task_vars,
                   crash_vars, lex_vars, env_vars, dir_vars, search_vars, chunk_vars, dedup_vars, watch_vars>>

StepSave ==
    /\ file_run.pc = "save"
    /\ UNCHANGED <<index, id_map>>
    /\ SaveFiles
    /\ file_run' = returned(file_run, "success",
                            file_run.steps \o <<"save">>, FALSE)
    /\ UNCHANGED <<pipeline_vars, task_vars, crash_vars, lex_vars, env_vars,
                   dir_vars, search_vars, chunk_vars, dedup_vars, watch_vars>>

NextSteps ==
    \/ \E text \in StepTexts :
          file_run.pc \in {"idle", "done"} /\ WriteFile(PathA, text)
    \/ file_run.pc = "idle" /\ WriteFile(PathC, TextOne)
    \/ \E p \in StepPaths, force \in BOOLEAN : StepStart(p, force)
    \/ \E ok \in BOOLEAN : StepParse(ok)
    \/ \E ok \in BOOLEAN : StepAddDocument(ok)
    \/ \E ok \in BOOLEAN : StepAddEmbeddings(ok)
    \/ \E ok \in BOOLEAN : StepAddChunks(ok)
    \/ StepSave

SpecSteps == Init /\ [][NextSteps]_vars

----------------------------------------------------------------------------
(* HybridRetriever.search.  Scores are fixed-point: a dense or lexical      *)
(* score of 1.0 is ScoreOne, the weights are tenths, and a fused score is   *)
(* counted in units of 1 / (10 * ScoreOne).                                 *)

vector_weight == 7
bm25_weight == 3
ScoreOne == 25

\* combined_scores[embedding_id] = value, on a dict that keeps the order in
\* which its keys were first inserted
dict_set(items, embedding_id, value) ==
    IF \E i \in 1..Len(items) : items[i][1] = embedding_id
    THEN [i \in 1..Len(items) |->
            IF items[i][1] = embedding_id THEN <<embedding_id, value>>
            ELSE items[i]]
    ELSE Append(items, <<embedding_id, value>>)

dict_get(items, embedding_id) ==
    items[CHOOSE i \in 1..Len(items) : items[i][1] = embedding_id][2]

\* lines 104-107
RECURSIVE add_vector_results(_, _)
add_vector_results(combined, dense) ==
    IF dense = <<>> THEN combined
    ELSE add_vector_results(
            dict_set(combined, Head(dense)[1], vector_weight * Head(dense)[2]),
            Tail(dense))

\* a fusion that adds the lexical score as it is
RECURSIVE add_bm25_results_unclipped(_, _)
add_bm25_results_unclipped(combined, lexical) ==
    IF lexical = <<>> THEN combined
    ELSE LET embedding_id == Head(lexical)[1]
             term == bm25_weight * Head(lexical)[2]
         IN add_bm25_results_unclipped(
               IF \E i \in 1..Len(combined) : combined[i][1] = embedding_id
               THEN dict_set(combined, embedding_id,
                             dict_get(combined, embedding_id) + term)
               ELSE dict_set(combined, embedding_id, term),
               Tail(lexical))

\* lines 109-115
RECURSIVE add_bm25_results(_, _)
add_bm25_results(combined, lexical) ==
    IF lexical = <<>> THEN combined
    ELSE LET embedding_id == Head(lexical)[1]
             term == bm25_weight * Min(Head(lexical)[2], ScoreOne)
         IN add_bm25_results(
               IF \E i \in 1..Len(combined) : combined[i][1] = embedding_id
               THEN dict_set(combined, embedding_id,
                             dict_get(combined, embedding_id) + term)
               ELSE dict_set(combined, embedding_id, term),
               Tail(lexical))

combined_scores(dense, lexical) ==
    add_bm25_results(add_vector_results(<<>>, dense), lexical)

\* sorted(..., key=score, reverse=True): stable, best first
sorted_by_score(items, score(_)) ==
    LET rank(i) == Cardinality({j \in 1..Len(items) :
                        \/ score(items[j]) > score(items[i])
                        \/ score(items[j]) = score(items[i]) /\ j < i})
    IN [r \in 1..Len(items) |->
            items[CHOOSE i \in 1..Len(items) : rank(i) = r - 1]]

PairScore(item) == item[2]
ResultScore(result) == result.score

sorted_ids(dense, lexical) ==
    sorted_by_score(combined_scores(dense, lexical), PairScore)

\* seq[:n]
Prefix(seq, n) == SubSeq(seq, 1, Min(n, Len(seq)))

NoChunk == [document_id |-> 0]

\* select(Chunk).where(embedding_id == ...).first()
get_chunk_by_embedding_id(chs, embedding_id) ==
    IF \E i \in 1..Len(chs) : chs[i].embedding_id = embedding_id
    THEN chs[CHOOSE i \in 1..Len(chs) :
                /\ chs[i].embedding_id = embedding_id
                /\ \A j \in 1..(i - 1) : chs[j].embedding_id # embedding_id]
    ELSE NoChunk

get_document_by_id(docs, document_id) ==
    IF \E d \in docs : d.id = document_id
    THEN CHOOSE d \in docs : d.id = document_id
    ELSE NoDocument

\* a resolution that returns every candidate, found or not
chunk_details_unresolved(docs, chs, scored) ==
    [i \in 1..Len(scored) |->
        LET chunk == get_chunk_by_embedding_id(chs, scored[i][1])
            doc == get_document_by_id(docs, chunk.document_id)
        IN [document_id |-> chunk.document_id,
            chunk_index |-> IF chunk = NoChunk THEN 0 ELSE chunk.chunk_index,
            text |-> IF chunk = NoChunk THEN <<>> ELSE chunk.text,
            score |-> scored[i][2],
            file_path |-> IF doc = NoDocument THEN [stem |-> "", suffix |-> ""]
                          ELSE doc.file_path]]

\* lines 120-135: the candidates whose passage and document are found
RECURSIVE chunk_details(_, _, _)
chunk_details(docs, chs, scored) ==
    IF scored = <<>> THEN <<>>
    ELSE LET chunk == get_chunk_by_embedding_id(chs, Head(scored)[1])
             doc == get_document_by_id(docs, chunk.document_id)
         IN (IF chunk # NoChunk /\ doc # NoDocument
             THEN << [document_id |-> doc.id,
                      chunk_index |-> chunk.chunk_index,
                      text |-> chunk.text,
                      score |-> Head(scored)[2],
                      file_path |-> doc.file_path] >>
             ELSE <<>>) \o chunk_details(docs, chs, Tail(scored))

\* a rerank that keeps the fused scores and their order
rerank_keeps_fused(pool, rerank_scores, top_k) == Prefix(pool, top_k)

\* a rerank that puts the later of two equal scores first
rerank_unstable(pool, rerank_scores, top_k) ==
    LET scored == [i \in 1..Len(pool) |->
                     [document_id |-> pool[i].document_id,
                      chunk_index |-> pool[i].chunk_index,
                      text |-> pool[i].text,
                      score |-> rerank_scores[i],
                      file_path |-> pool[i].file_path,
                      rerank_score |-> rerank_scores[i],
                      original_score |-> pool[i].score]]
        rank(i) == Cardinality({j \in 1..Len(scored) :
                      \/ scored[j].score > scored[i].score
                      \/ scored[j].score = scored[i].score /\ j > i})
    IN Prefix([r \in 1..Len(scored) |->
                  scored[CHOOSE i \in 1..Len(scored) : rank(i) = r - 1]],
              top_k)

\* rerank, lines 155-170, given the scores the cross-encoder predicts
rerank(pool, rerank_scores, top_k) ==
    Prefix(sorted_by_score(
               [i \in 1..Len(pool) |->
                   [document_id |-> pool[i].document_id,
                    chunk_index |-> pool[i].chunk_index,
                    text |-> pool[i].text,
                    score |-> rerank_scores[i],
                    file_path |-> pool[i].file_path,
                    rerank_score |-> rerank_scores[i],
                    original_score |-> pool[i].score]],
               ResultScore),
           top_k)

\* the float of a lexical score
lexical_scores(hits) ==
    [i \in 1..Len(hits) |-> <<hits[i][1], hits[i][2] * ScoreOne>>]

SearchQueries == {TextOne, TextOne \o <<" ">> \o TextOne, Sentence("c", 200)}
SearchTopK == {1, 2}
RerankScores == {5, 20}

\* initialize, lines 38-41, when a reranker model is named
LoadReranker ==
    /\ ~reranker
    /\ reranker' = TRUE
    /\ UNCHANGED <<pipeline_vars, store_vars, task_vars, crash_vars, lex_vars,
                   env_vars, dir_vars, step_vars, search_run, chunk_vars, dedup_vars, watch_vars>>

\* search, lines 71-143; predicted are the scores of the cross-encoder
Search(query, top_k, use_reranker) ==
    /\ \E dense \in {vector_search(index, id_map, embed(query), top_k * 2)},
          lexical \in {lexical_scores(bm25_search(bm25_index, chunk_texts,
                                                  chunk_ids, query, top_k))} :
         \E fused \in {sorted_ids(dense, lexical)} :
           \E pool \in {chunk_details(documents, chunks,
                                      Prefix(fused, top_k * 2))} :
             \E predicted \in
                    IF use_reranker /\ reranker /\ pool # <<>>
                    THEN [1..Len(pool) -> RerankScores] ELSE {<<>>} :
               search_run' =
                 [pc |-> "returned", query |-> query, top_k |-> top_k,
                  use_reranker |-> use_reranker, reranker |-> reranker,
                  vector_results |-> dense, bm25_results |-> lexical,
                  sorted_ids |-> fused, pool |-> pool,
                  rerank_scores |-> predicted,
                  results |-> IF use_reranker /\ reranker /\ pool # <<>>
                              THEN rerank(pool, predicted, top_k)
                              ELSE Prefix(pool, top_k)]
    /\ UNCHANGED <<pipeline_vars, store_vars, task_vars, crash_vars, lex_vars,
                   env_vars, dir_vars, step_vars, reranker, chunk_vars, dedup_vars, watch_vars>>

\* a search in which get_scores (lines 88-89) or reranker.predict (line 159)
\* raises: nothing in search or rerank catches it, the call ends raising
SearchSteps == {"get_scores", "predict"}

SearchRaises(query, top_k, use_reranker, step) ==
    /\ \E dense \in {vector_search(index, id_map, embed(query), top_k * 2)} :
         \E pool \in {IF step = "get_scores" THEN <<>>
                      ELSE chunk_details(documents, chunks,
                              Prefix(sorted_ids(dense,
                                        lexical_scores(bm25_search(bm25_index,
                                            chunk_texts, chunk_ids, query, top_k))),
                                     top_k * 2))} :
           /\ IF step = "get_scores"
              THEN bm25_index.built /\ chunk_texts # <<>>
              ELSE use_reranker /\ reranker /\ pool # <<>>
           /\ search_run' =
                 [pc |-> "raised", query |-> query, top_k |-> top_k,
                  use_reranker |-> use_reranker, reranker |-> reranker,
                  vector_results |-> dense, step |-> step]
    /\ UNCHANGED <<pipeline_vars, store_vars, task_vars, crash_vars, lex_vars,
                   env_vars, dir_vars, step_vars, reranker, chunk_vars, dedup_vars, watch_vars>>

\* a search changes nothing it reads: the stores are explored first, with
\* rebuild_bm25_index run to its end, and every state they reach is searched
Unsearched == search_run = NoSearch
Settled == Unsearched /\ rebuild.pc = "idle"

\* the call that returned last is made once more
Repeated(query, top_k, use_reranker) ==
    /\ search_run.pc = "returned"
    /\ search_run.query = query
    /\ search_run.top_k = top_k
    /\ search_run.use_reranker = use_reranker

NextSearch ==
    \/ \E p \in AllPaths : Settled /\ WriteFile(p, LexText(p))
    \/ \E p \in AllPaths : Settled /\ IngestFile(p, FALSE)
    \/ \E p \in Paths : Settled /\ DeleteDocument(p)
    \/ Unsearched /\ RebuildList
    \/ Unsearched /\ RebuildClear
    \/ Unsearched /\ RebuildRead
    \/ Settled /\ LoadReranker
    \/ \E query \in SearchQueries, top_k \in SearchTopK, use_reranker \in BOOLEAN :
          /\ Settled \/ Repeated(query, top_k, use_reranker)
          /\ Search(query, top_k, use_reranker)
    \/ \E query \in SearchQueries, top_k \in SearchTopK, use_reranker \in BOOLEAN,
          step \in SearchSteps :
            Settled /\ SearchRaises(query, top_k, use_reranker, step)

SpecSearch == Init /\ [][NextSearch]_vars

-----------------------------------------------------------------------------
(* TextChunker.chunk_text call by call: the sentence mode returns at once,  *)
(* the size mode runs its window loop one iteration per step                *)

MaxTextLen == 6
MaxIterations == 8

ChunkAlphabet == {"a", " ", "."}
ChunkTexts == UNION {[1..n -> ChunkAlphabet] : n \in 0..MaxTextLen}

\* small configurations with 0 <= chunk_overlap < chunk_size
ChunkConfigs ==
    {[chunk_size |-> cs, chunk_overlap |-> ov, min_chunk_size |-> mn,
      respect_sentence_boundary |-> sb, respect_word_boundary |-> wb] :
        cs \in {2, 3}, ov \in {0, 1, 2}, mn \in {1, 2}, sb \in BOOLEAN, wb \in BOOLEAN}

\* test_chunk_by_sentences: four sentences, chunk_size 100, defaults otherwise
TestSentences ==
    Rep("f", 5) \o <<" ">> \o Rep("s", 8) \o <<".", " ">>
      \o Rep("s", 6) \o <<" ">> \o Rep("s", 8) \o <<".", " ">>
      \o Rep("t", 5) \o <<" ">> \o Rep("s", 8) \o <<".", " ">>
      \o Rep("f", 6) \o <<" ">> \o Rep("s", 8) \o <<".">>
TestSentenceConfig ==
    [PipelineChunkConfig EXCEPT !.chunk_size = 100]

\* test_chunk_by_size: "This is a test. " repeated, chunk_size 100, overlap 20
RECURSIVE Repeat(_, _)
Repeat(text, n) == IF n = 0 THEN <<>> ELSE text \o Repeat(text, n - 1)
TestRepeats == 7
TestWindows == Repeat(<<"T", "h", "i", "s", " ", "i", "s", " ", "a", " ",
                        "t", "e", "s", "t", ".", " ">>, TestRepeats)
TestSizeConfig ==
    [PipelineChunkConfig EXCEPT !.chunk_size = 100, !.chunk_overlap = 20,
                                !.respect_sentence_boundary = FALSE]

ChunkInputs ==
    {<<t, c>> \in ChunkTexts \X ChunkConfigs :
        /\ c.chunk_overlap < c.chunk_size
        /\ c.respect_sentence_boundary => c.respect_word_boundary}
    \cup {<<TestSentences, TestSentenceConfig>>, <<TestWindows, TestSizeConfig>>}

\* chunk_text up to the dispatch of lines 44-47
ChunkCall(text, cfg) ==
    /\ chunk_run.pc = "idle"
    /\ chunk_run' =
          IF text = <<>> \/ Len(Strip(text)) < cfg.min_chunk_size
          THEN [pc |-> "done", text |-> text, cfg |-> cfg, cleaned |-> <<>>,
                chunk_list |-> <<>>, start |-> 0, iterations |-> 0]
          ELSE IF cfg.respect_sentence_boundary
          THEN [pc |-> "done", text |-> text, cfg |-> cfg,
                cleaned |-> clean_text(text),
                chunk_list |-> chunk_by_sentences(clean_text(text), cfg),
                start |-> 0, iterations |-> 0]
          ELSE [pc |-> IF 0 < Len(clean_text(text)) THEN "window" ELSE "done",
                text |-> text, cfg |-> cfg, cleaned |-> clean_text(text),
                chunk_list |-> <<>>, start |-> 0, iterations |-> 0]
    /\ UNCHANGED <<pipeline_vars, store_vars, task_vars, crash_vars, lex_vars,
                   env_vars, dir_vars, step_vars, search_vars, dedup_vars, watch_vars>>

\* one iteration of the while loop of _chunk_by_size
SizeStep ==
    /\ chunk_run.pc = "window"
    /\ chunk_run.iterations < MaxIterations
    /\ chunk_run' = size_step(chunk_run)
    /\ UNCHANGED <<pipeline_vars, store_vars, task_vars, crash_vars, lex_vars,
                   env_vars, dir_vars, step_vars, search_vars, dedup_vars, watch_vars>>

NextChunk ==
    \/ chunk_run.pc = "idle" /\ \E input \in ChunkInputs : ChunkCall(input[1], input[2])
    \/ SizeStep

SpecChunk == Init /\ [][NextChunk]_vars

-----------------------------------------------------------------------------
(* One Deduplicator instance, call by call.  seen_hashes is the set of the  *)
(* instance, lsh the entries of its MinHashLSH (key and MinHash);           *)
(* exact_texts is the history of the texts given to is_duplicate_exact.     *)

DefaultThreshold == 85
MaxBatch == 4

DedupTexts ==
    {<<"H", " ", "a">>, <<"h", " ", " ", "a">>, <<"h", " ", "b">>, <<"c">>}

\* hashlib.sha256(text.encode()).hexdigest(): texts that differ have
\* digests that differ
sha256(text) == <<"sha256", text>>

\* an exact check that forgets the hashes seen before
is_duplicate_exact_forgets(seen, text) ==
    [value |-> sha256(text) \in seen, seen_hashes |-> {sha256(text)}]

\* is_duplicate_exact (lines 31-39): the value returned and the set after it
is_duplicate_exact(seen, text) ==
    [value |-> sha256(text) \in seen, seen_hashes |-> seen \cup {sha256(text)}]

ExactCall(text) ==
    /\ deduplicator' =
          [deduplicator EXCEPT
              !.seen_hashes = is_duplicate_exact(deduplicator.seen_hashes, text).seen_hashes,
              !.exact_texts = deduplicator.exact_texts \cup {text}]
    /\ dedup_call' = [op |-> "exact", text |-> text, raised |-> FALSE,
                      value |-> is_duplicate_exact(deduplicator.seen_hashes, text).value]
    /\ UNCHANGED <<pipeline_vars, store_vars, task_vars, crash_vars, lex_vars,
                   env_vars, dir_vars, step_vars, search_vars, chunk_vars, watch_vars>>

\* MinHash(num_perm=128) updated with every word of text.lower().split():
\* a function of the set of words
MinHash(text) == {Tokenize(text)[k] : k \in DOMAIN Tokenize(text)}

\* MinHashLSH.query: the keys whose MinHash shares a band with the query's.
\* Equal word sets always do, disjoint ones never; for word sets that
\* overlap the answer depends on the permutations (near)
lsh_query(lsh, minhash, near) ==
    {e.key : e \in {x \in lsh : \/ x.minhash = minhash
                                 \/ (near /\ x.minhash \cap minhash # {})}}

\* is_duplicate_fuzzy (lines 41-58); MinHashLSH.insert raises ValueError
\* for a key that is already in the index
FuzzyCall(text, near) ==
    LET minhash == MinHash(text)
        result == lsh_query(deduplicator.lsh, minhash, near)
        doc_id == Cardinality(deduplicator.seen_hashes)
    IN /\ IF result # {}
          THEN /\ dedup_call' = [op |-> "fuzzy", text |-> text, raised |-> FALSE,
                                 value |-> <<TRUE, DefaultThreshold>>]
               /\ UNCHANGED deduplicator
          ELSE IF \E e \in deduplicator.lsh : e.key = doc_id
          THEN /\ dedup_call' = [op |-> "fuzzy", text |-> text, raised |-> TRUE,
                                 value |-> <<FALSE, 0>>]
               /\ UNCHANGED deduplicator
          ELSE /\ dedup_call' = [op |-> "fuzzy", text |-> text, raised |-> FALSE,
                                 value |-> <<FALSE, 0>>]
               /\ deduplicator' =
                     [deduplicator EXCEPT
                         !.lsh = @ \cup {[key |-> doc_id, minhash |-> minhash]}]
       /\ UNCHANGED <<pipeline_vars, store_vars, task_vars, crash_vars, lex_vars,
                      env_vars, dir_vars, step_vars, search_vars, chunk_vars, watch_vars>>

\* the symmetric matrix similarity_matrix[i, j] >= similarity_threshold of a
\* batch of n passages whose similar pairs i < j are given
Pairs(n) == {ij \in (0..(n - 1)) \X (0..(n - 1)) : ij[1] < ij[2]}
SimilarityMatrix(n, pairs) ==
    [ij \in (0..(n - 1)) \X (0..(n - 1)) |->
        \/ ij[1] = ij[2]
        \/ ij \in pairs
        \/ <<ij[2], ij[1]>> \in pairs]

\* deduplicate_chunks (lines 99-129) on a batch of n passages; fails says
\* that fit_transform raises (lines 70-74).  The call reads and writes
\* neither seen_hashes nor lsh, and is explored on the new instance
DedupBatch(n, pairs, fails) ==
    /\ fails => n >= 2
    /\ dedup_call' =
          [op |-> "batch", n |-> n, pairs |-> pairs, fails |-> fails,
           raised |-> FALSE,
           value |-> KeepPositions([k \in 1..n |-> k - 1],
                                   IF fails THEN {}
                                   ELSE to_remove(n, SimilarityMatrix(n, pairs)),
                                   0)]
    /\ UNCHANGED <<pipeline_vars, store_vars, task_vars, crash_vars, lex_vars,
                   env_vars, dir_vars, step_vars, search_vars, chunk_vars, watch_vars,
                   deduplicator>>

NextDedup ==
    \/ \E text \in DedupTexts : ExactCall(text)
    \/ \E text \in DedupTexts, near \in BOOLEAN : FuzzyCall(text, near)
    \/ /\ deduplicator = NewDeduplicator
       /\ \E n \in 0..MaxBatch :
             \E pairs \in SUBSET Pairs(n), fails \in BOOLEAN :
                DedupBatch(n, pairs, fails)

SpecDedup == Init /\ [][NextDedup]_vars

-----------------------------------------------------------------------------
(* The folder watcher: every file event schedules a coroutine on the one    *)
(* event loop.  A coroutine runs from one await to the next; the awaits are *)
(* the sleep, the parse, and every call of the document store and of        *)
(* add_embeddings; remove_embeddings and save do not suspend.               *)

WatchTexts == {TextOne, TextLine}
WatchPath == PathA

FreeSlots == {c \in Scheduled : coroutines[c].kind = "none"}
NextSlot == CHOOSE c \in FreeSlots : \A d \in FreeSlots : c <= d
InFlight(c) == coroutines[c].kind = "ingest" /\ coroutines[c].pc # "done"

\* schedule_ingestion: run_coroutine_threadsafe(watcher.ingest_file(path))
schedule_ingestion(file_path) ==
    [coroutines EXCEPT ![NextSlot] =
        [kind |-> "ingest", pc |-> "sleep", path |-> file_path, text |-> <<>>,
         existing |-> NoDocument, document_id |-> 0, embedding_ids |-> <<>>,
         status |-> "running", in_flight |-> FALSE]]

\* schedule_deletion: run_coroutine_threadsafe(watcher.delete_file(path))
schedule_deletion(file_path) ==
    [coroutines EXCEPT ![NextSlot] =
        [kind |-> "delete", pc |-> "get_document", path |-> file_path,
         text |-> <<>>, existing |-> NoDocument, document_id |-> 0,
         embedding_ids |-> <<>>, status |-> "running",
         in_flight |-> \E c \in Scheduled : InFlight(c)]]

finished(co, status) == [co EXCEPT !.pc = "done", !.status = status]

WatchFrame ==
    UNCHANGED <<task_vars, crash_vars, lex_vars, env_vars, dir_vars, step_vars,
                search_vars, chunk_vars, dedup_vars, last_call, retired>>

\* the file is written and the observer calls on_created or on_modified
OnWritten(text) ==
    /\ FreeSlots # {}
    /\ files' = [files EXCEPT ![WatchPath] = [exists |-> TRUE, text |-> text]]
    /\ coroutines' = schedule_ingestion(WatchPath)
    /\ UNCHANGED <<documents, chunks, store_vars>>
    /\ WatchFrame

\* the file is removed and the observer calls on_deleted
OnDeleted ==
    /\ FreeSlots # {}
    /\ files[WatchPath].exists
    /\ files' = [files EXCEPT ![WatchPath] = [exists |-> FALSE, text |-> <<>>]]
    /\ coroutines' = schedule_deletion(WatchPath)
    /\ UNCHANGED <<documents, chunks, store_vars>>
    /\ WatchFrame

\* watcher.ingest_file after the sleep, into pipeline.ingest_file up to the
\* await of parser.parse
WakeUp(c) ==
    /\ coroutines[c].pc = "sleep"
    /\ coroutines' = [coroutines EXCEPT ![c] =
          IF files[coroutines[c].path].exists
          THEN [coroutines[c] EXCEPT !.pc = "parse"]
          ELSE finished(coroutines[c], "not ingested")]
    /\ UNCHANGED <<files, documents, chunks, store_vars>>
    /\ WatchFrame

\* the parse returns (lines 65-68) and get_document is awaited (line 72)
Parsed(c) ==
    /\ coroutines[c].pc = "parse"
    /\ LET f == files[coroutines[c].path]
       IN coroutines' = [coroutines EXCEPT ![c] =
             IF ~f.exists THEN finished(coroutines[c], "error")
             ELSE IF f.text = <<>> THEN finished(coroutines[c], "skipped")
             ELSE [coroutines[c] EXCEPT !.pc = "get_document", !.text = f.text]]
    /\ UNCHANGED <<files, documents, chunks, store_vars>>
    /\ WatchFrame

\* get_document returns (lines 72-77); add_document is awaited and runs up
\* to its select (document_store.py lines 50-54)
GotDocument(c) ==
    /\ coroutines[c].pc = "get_document" /\ coroutines[c].kind = "ingest"
    /\ LET doc == get_document(documents, coroutines[c].path)
       IN coroutines' = [coroutines EXCEPT ![c] =
             IF doc # NoDocument /\ doc.checksum = compute_checksum(coroutines[c].text)
             THEN finished(coroutines[c], "unchanged")
             ELSE [coroutines[c] EXCEPT !.pc = "select"]]
    /\ UNCHANGED <<files, documents, chunks, store_vars>>
    /\ WatchFrame

\* the select of add_document returns the row of the path, if there is one
Selected(c) ==
    /\ coroutines[c].pc = "select"
    /\ coroutines' = [coroutines EXCEPT ![c] =
          [coroutines[c] EXCEPT
              !.pc = "commit",
              !.existing = get_document(documents, coroutines[c].path)]]
    /\ UNCHANGED <<files, documents, chunks, store_vars>>
    /\ WatchFrame

\* the commit of add_document (lines 58-95) and, back in ingest_file, the
\* chunking up to the await of add_embeddings.  An insert for a path that
\* has a row by now breaks the unique constraint, an update of a row that
\* is gone matches no row: both raise
Committed(c) ==
    /\ coroutines[c].pc = "commit"
    /\ LET co == coroutines[c]
           processed_text == ProcessedText[co.text]
           now == get_document(documents, co.path)
           raises == IF co.existing = NoDocument THEN now # NoDocument
                     ELSE /\ co.existing.checksum # compute_checksum(processed_text)
                          /\ now = NoDocument
           writes == co.existing = NoDocument
                        \/ co.existing.checksum # compute_checksum(processed_text)
           document == IF writes
                       THEN add_document_row(documents, co.path, processed_text)
                       ELSE co.existing
       IN IF raises
          THEN /\ coroutines' = [coroutines EXCEPT ![c] = finished(co, "error")]
               /\ UNCHANGED <<documents, chunks>>
          ELSE /\ documents' = IF writes
                               THEN add_document_docs(documents, co.path, processed_text)
                               ELSE documents
               /\ chunks' = IF writes
                            THEN add_document_chunks(documents, chunks, co.path,
                                                     processed_text)
                            ELSE chunks
               /\ coroutines' = [coroutines EXCEPT ![c] =
                     IF RetainedChunks[co.text] = <<>>
                     THEN finished(co, "error")
                     ELSE [co EXCEPT !.pc = "add_embeddings",
                                     !.document_id = document.id]]
    /\ UNCHANGED <<files, store_vars>>
    /\ WatchFrame

\* add_embeddings after its embedding call (vector_store.py lines 72-86)
Embedded(c) ==
    /\ coroutines[c].pc = "add_embeddings"
    /\ LET co == coroutines[c]
           new_chunks == RetainedChunks[co.text]
           stored == stored_chunks(co.document_id, new_chunks)
       IN /\ ntotal(index) + Len(new_chunks) <= MaxVectors
          /\ index' = index_add(index,
                         embed_batch([i \in 1..Len(new_chunks) |-> new_chunks[i].text]))
          /\ id_map' = id_map_update(id_map, ntotal(index),
                          [i \in 1..Len(stored) |-> stored[i].embedding_id],
                          [i \in 1..Len(new_chunks) |-> [document_id |-> co.document_id]])
          /\ coroutines' = [coroutines EXCEPT ![c] = [co EXCEPT !.pc = "add_chunks"]]
    /\ UNCHANGED <<files, documents, chunks, index_file, id_map_file>>
    /\ WatchFrame

\* add_chunks commits the rows (pipeline.py line 126), then save runs
\* without suspending (line 129) and ingest_file returns
ChunksAdded(c) ==
    /\ coroutines[c].pc = "add_chunks"
    /\ LET co == coroutines[c]
       IN /\ chunks' = add_chunks(chunks, co.document_id,
                          stored_chunks(co.document_id, RetainedChunks[co.text]))
          /\ coroutines' = [coroutines EXCEPT ![c] = finished(co, "success")]
    /\ UNCHANGED <<index, id_map>>
    /\ SaveFiles
    /\ UNCHANGED <<files, documents>>
    /\ WatchFrame

\* delete_document: get_document returns (pipeline.py lines 197-200)
DeleteGotDocument(c) ==
    /\ coroutines[c].pc = "get_document" /\ coroutines[c].kind = "delete"
    /\ LET doc == get_document(documents, coroutines[c].path)
       IN coroutines' = [coroutines EXCEPT ![c] =
             IF doc = NoDocument THEN finished(coroutines[c], "false")
             ELSE [coroutines[c] EXCEPT !.pc = "get_chunks", !.existing = doc]]
    /\ UNCHANGED <<files, documents, chunks, store_vars>>
    /\ WatchFrame

\* get_chunks returns; remove_embeddings and save run without suspending
\* (lines 203-209) up to the await of document_store.delete_document
DeleteGotChunks(c) ==
    /\ coroutines[c].pc = "get_chunks"
    /\ LET rows == get_chunks(chunks, coroutines[c].existing.id)
           embedding_ids == [i \in 1..Len(rows) |-> rows[i].embedding_id]
       IN /\ coroutines' = [coroutines EXCEPT ![c] =
                [coroutines[c] EXCEPT !.pc = "delete_document",
                                      !.embedding_ids = embedding_ids]]
          /\ IF embedding_ids # <<>>
             THEN /\ index' = remove_index(index, id_map, embedding_ids)
                  /\ id_map' = remove_id_map(index, id_map, embedding_ids)
                  /\ SaveFiles
             ELSE UNCHANGED store_vars
    /\ UNCHANGED <<files, documents, chunks>>
    /\ WatchFrame

\* document_store.delete_document commits (line 212)
DeleteCommitted(c) ==
    /\ coroutines[c].pc = "delete_document"
    /\ documents' = delete_document_docs(documents, coroutines[c].path)
    /\ chunks' = delete_document_chunks(documents, chunks, coroutines[c].path)
    /\ coroutines' = [coroutines EXCEPT ![c] = finished(coroutines[c], "true")]
    /\ UNCHANGED <<files, store_vars>>
    /\ WatchFrame

NextWatch ==
    \/ \E text \in WatchTexts : OnWritten(text)
    \/ OnDeleted
    \/ \E c \in Scheduled :
          \/ WakeUp(c)
          \/ Parsed(c)
          \/ GotDocument(c)
          \/ Selected(c)
          \/ Committed(c)
          \/ Embedded(c)
          \/ ChunksAdded(c)
          \/ DeleteGotDocument(c)
          \/ DeleteGotChunks(c)
          \/ DeleteCommitted(c)

SpecWatch == Init /\ [][NextWatch]_vars

----------------------------------------------------------------------------
(* Properties of the pipeline                                               *)

IdsOfIndex == {id_map[s].id : s \in DOMAIN id_map}
IdsOfPassages == {chunks[i].embedding_id : i \in 1..Len(chunks)}
PassageCount(chs, document_id) == Len(get_chunks(chs, document_id))

\* C1: when the file is unchanged since the preceding ingest_file call of
\* its path, a second ingest_file without force ends in "unchanged" and
\* leaves the vector count and the passage count of the document as they were
C1_IdempotentIngest ==
    [][\A p \in Paths :
        (/\ last_call.op = "ingest_file" /\ last_call.path = p
         /\ last_call.status \in {"success", "unchanged"}
         /\ files[p].exists /\ files[p].text = last_call.text
         /\ IngestFile(p, FALSE))
        => /\ last_call'.status = "unchanged"
           /\ ntotal(index') = ntotal(index)
           /\ PassageCount(chunks', get_document(documents, p).id)
                = PassageCount(chunks, get_document(documents, p).id)]_vars

\* C2: the embedding ids of the id map are the embedding ids of the stored
\* passages
C2_SlotsMatchPassages == IdsOfIndex = IdsOfPassages

\* the slots of an id map that belong to a document
SlotsOfDocument(imap, document_id) ==
    {s \in DOMAIN imap : \/ imap[s].metadata.document_id = document_id
                         \/ imap[s].id[2] = document_id}

\* C4: after delete_document returned true the document and its passages
\* are gone from the metadata store and no slot, in memory or persisted,
\* belongs to the document
C4_DeleteRemovesAll ==
    [][\A p \in Paths :
        (DeleteDocument(p) /\ get_document(documents, p) # NoDocument)
        => LET d == get_document(documents, p).id
           IN /\ get_document(documents', p) = NoDocument
              /\ PassageCount(chunks', d) = 0
              /\ SlotsOfDocument(id_map', d) = {}
              /\ Readable(id_map_file')
                    => SlotsOfDocument(pickle_load(id_map_file'), d) = {}]_vars

\* C5: a successful ingest_file for a path that already has a document
\* leaves exactly the newly retained passages as the passages of the
\* document, with chunk indexes 0..n-1
C5_PassagesReplaced ==
    [][\A p \in Paths, force \in BOOLEAN :
        (/\ IngestFile(p, force)
         /\ get_document(documents, p) # NoDocument
         /\ last_call'.status = "success")
        => LET rows == get_chunks(chunks', get_document(documents, p).id)
               kept == RetainedChunks[files[p].text]
           IN /\ Len(rows) = Len(kept)
              /\ \A i \in 1..Len(rows) :
                    rows[i].chunk_index = i - 1 /\ rows[i].text = kept[i].text]_vars

\* C6: the embedding id of a removed passage is not the embedding id of a
\* later passage with another text
C6_IdNeverReused ==
    \A i \in 1..Len(chunks) : \A r \in retired :
        r.embedding_id = chunks[i].embedding_id => r.text = chunks[i].text

----------------------------------------------------------------------------
(* The vector store: rebuild, concurrency and persistence.                  *)

\* the entries of the index in slot order
Entries(idx, imap) ==
    [k \in 1..Len(idx) |->
        [id |-> imap[k-1].id, metadata |-> imap[k-1].metadata, vector |-> idx[k]]]

Listed(id, embedding_ids) == \E k \in 1..Len(embedding_ids) : embedding_ids[k] = id

KeptEntries(entries, embedding_ids) ==
    SelectSeq(entries, LAMBDA e : ~Listed(e.id, embedding_ids))

DenseSlots(idx, imap) == DOMAIN imap = 0..(ntotal(idx) - 1)

\* C3: after remove_embeddings the index holds exactly the entries whose
\* embedding_id was not listed, in their original order, at slots 0..n-1
\* without gaps, each with the id, metadata and vector it had; when no stored
\* id is listed, the index and the id map are unchanged.
C3_RebuildPreserves ==
    [][\A embedding_ids \in IdLists :
        RemoveEmbeddings(embedding_ids) =>
            /\ DenseSlots(index', id_map')
            /\ Entries(index', id_map') =
                    KeptEntries(Entries(index, id_map), embedding_ids)
            /\ (\A s \in DOMAIN id_map : ~Listed(id_map[s].id, embedding_ids)) =>
                    (index' = index /\ id_map' = id_map)]_vars

\* a removal took the middle entry of three and left the outer two in order
C3_Witness ==
    /\ last_call.op = "remove_embeddings"
    /\ last_call.embedding_ids = <<EmbeddingId(1, 1)>>
    /\ last_call.removed = 1
    /\ ntotal(index) = 2
    /\ id_map[0].id = EmbeddingId(2, 0)
    /\ id_map[1].id = EmbeddingId(1, 0)

\* C7: in every state a coroutine can observe, between the steps of the
\* concurrent add_embeddings, remove_embeddings, search and save calls, the
\* slots of the id map are exactly 0..ntotal-1 and each slot holds the id and
\* metadata that were supplied with the vector stored at that slot.
C7_IndexAtomic ==
    /\ DenseSlots(index, id_map)
    /\ \A s \in DOMAIN id_map :
          /\ index[s+1] = normalize_L2(embed(ItemOfId(id_map[s].id).text))
          /\ id_map[s].metadata = ItemOfId(id_map[s].id).metadata

\* one add_embeddings is suspended at its await with a batch of two while the
\* other coroutine's add has already put its vector in the index
C7_Witness ==
    /\ ntotal(index) = 1
    /\ \E t \in Tasks :
          /\ tasks[t].pc = "add_embeddings"
          /\ Len(tasks[t].texts) = 2
          /\ tasks[t].embedding_ids[1] # id_map[0].id

\* C9: when the process dies during save(), the two files on disk are the
\* pair that was there when the save began or the pair of the index and id
\* map being saved.
C9_CrashSafe ==
    (crashed /\ save_pc # "idle") =>
        <<index_file, id_map_file>> \in
            {disk_before, <<write_index(index), pickle_dump(id_map)>>}

\* C10: when save() has written its files, a new instance loading them has
\* the same id map, the same vectors, the same stats and the same search
\* results for every query as the instance that saved.
C10_RoundTrip ==
    [][SaveWriteIdMap =>
        LET loaded_index == load_index(index_file', id_map_file')
            loaded_id_map == load_id_map(index_file', id_map_file')
        IN /\ loaded_id_map = id_map'
           /\ loaded_index = index'
           /\ get_stats(loaded_index, index_file') = get_stats(index', index_file')
           /\ \A query \in VSQueries, top_k \in VSTopK :
                 vector_search(loaded_index, loaded_id_map, embed(query), top_k) =
                 vector_search(index', id_map', embed(query), top_k)]_vars

\* a save has completed for an index of two vectors
C10_Witness ==
    /\ Running
    /\ ntotal(index) = 2
    /\ id_map[0].id = EmbeddingId(1, 1)
    /\ index_file = write_index(index)
    /\ id_map_file = pickle_dump(id_map)

----------------------------------------------------------------------------
(* The lexical index.                                                       *)

\* C8: whenever a search scores against the lexical index, the scoring
\* structure and the position lists it uses are of the same corpus snapshot:
\* the structure was built from exactly the texts of the lists.
C8_SearchSeesOneSnapshot ==
    [][\A query \in LexQueries, top_k \in LexTopK :
        (LexSearch(query, top_k) /\ bm25_index.built /\ chunk_texts # <<>>) =>
            /\ Len(chunk_ids) = Len(bm25_index.corpus)
            /\ bm25_index.corpus =
                    [i \in 1..Len(chunk_texts) |-> Tokenize(chunk_texts[i])]]_vars

----------------------------------------------------------------------------
(* Loading the persisted index.                                             *)

\* both files can be read and the id map's slots are not those of the index
InconsistentPair(ifile, mfile) ==
    /\ Readable(ifile) /\ Readable(mfile)
    /\ DOMAIN pickle_load(mfile) # 0..(ifile.ntotal - 1)

\* C11: when both files are present and readable but mutually inconsistent,
\* initializing from them discards both and leaves an empty index.
C11_InconsistentPairRejected ==
    [][(Initialize /\ InconsistentPair(index_file, id_map_file)) =>
            (index' = <<>> /\ id_map' = EmptyMap)]_vars

\* C12: when either file is missing or cannot be read, initializing leaves
\* an empty index and an empty id map, never a half-loaded state.
C12_LoadFallback ==
    [][(Initialize /\ (~Readable(index_file) \/ ~Readable(id_map_file))) =>
            (index' = <<>> /\ id_map' = EmptyMap)]_vars

\* a new process has initialized from a written index file of two vectors
\* and an id map file cut short by the crash: it runs with an empty index
C12_Witness ==
    /\ Running
    /\ Readable(index_file) /\ index_file.ntotal = 2
    /\ id_map_file = PartialFile
    /\ index = <<>>
    /\ id_map = EmptyMap

----------------------------------------------------------------------------
(* Failures of the pipeline.                                                *)

IdsIn(imap) == {imap[s].id : s \in DOMAIN imap}
IdsOf(chs) == {chs[i].embedding_id : i \in 1..Len(chs)}

\* C13: when ingest_file fails for a file, save() is not called, the
\* documents and passages of the other files are unchanged, no slot of the
\* index is left without a stored passage and no stored passage set is
\* emptied.
C13_FailureIsolated ==
    [][\A p \in Paths, force \in BOOLEAN :
        (IngestFile(p, force) /\ last_call'.status = "error") =>
            /\ index_file' = index_file /\ id_map_file' = id_map_file
            /\ \A d \in documents : d.file_path # p =>
                    /\ d \in documents'
                    /\ get_chunks(chunks', d.id) = get_chunks(chunks, d.id)
            /\ (IdsIn(id_map) \subseteq IdsOf(chunks)) =>
                    (IdsIn(id_map') \subseteq IdsOf(chunks'))
            /\ \A d \in documents :
                    PassageCount(chunks, d.id) > 0 => PassageCount(chunks', d.id) > 0]_vars

\* C14: when the disk fails during the save() of an ingest_file or a
\* delete_document, the call reports a failure: ingest_file does not return
\* status success and delete_document does not return true.
C14_SaveFailureReported ==
    [][\A p \in Paths :
        /\ (IngestFile(p, FALSE) /\ disk # "ok") => last_call'.status # "success"
        /\ (DeleteDocument(p) /\ disk # "ok"
                /\ PassageCount(chunks, get_document(documents, p).id) > 0)
             => last_call'.status # "true"]_vars

----------------------------------------------------------------------------
(* Directory ingestion.                                                     *)

StatusCount(entries, statuses) ==
    Cardinality({i \in 1..Len(entries) : entries[i].status \in statuses})

\* C15: when ingest_directory has finished, its per-file list has one entry
\* for every regular file of the listing, in the order of the listing,
\* whatever the earlier files returned; every entry is counted in exactly
\* one of success, skipped (skipped or unchanged) and failed, so the three
\* counts add up to the length of the list.
C15_DirectoryTally ==
    dir_run.pc = "done" =>
        LET r == dir_run.results
        IN /\ [i \in 1..Len(r.files) |-> r.files[i].path] =
                    SelectSeq(dir_run.listing, LAMBDA e : e # SubDir)
           /\ r.success = StatusCount(r.files, {"success"})
           /\ r.skipped = StatusCount(r.files, {"skipped", "unchanged"})
           /\ r.failed = StatusCount(r.files, {"error"})
           /\ r.success + r.skipped + r.failed = Len(r.files)

\* a finished run whose first file failed and whose second file succeeded
C15_Witness ==
    /\ dir_run.pc = "done"
    /\ Len(dir_run.results.files) = 2
    /\ dir_run.results.files[1].status = "error"
    /\ dir_run.results.files[2].status = "success"
    /\ dir_run.results.failed = 1


(***************************************************************************)
(* C16: every ingest_file call ends in one terminal outcome; a raising     *)
(* step ends it Failed; it ends Skipped exactly when no parser takes the   *)
(* file, the extracted text is empty or the document's checksum is         *)
(* unchanged; it ends Success only after parse, preprocess, language       *)
(* detection, chunk, deduplicate, embed and add, persist passages and save *)
(* ran in this order.                                                      *)
(***************************************************************************)
ClaimedOrder ==
    <<"parse", "process", "detect", "chunk_text", "deduplicate_chunks",
      "add_embeddings", "add_chunks", "save">>

IsClaimedStep(step) == \E i \in 1..Len(ClaimedOrder) : ClaimedOrder[i] = step

\* the checksum the metadata store computes for the file is the one it holds
checksum_unchanged(r) ==
    r.stored_checksum = compute_checksum(ProcessedText[r.text])

SkipCause(r) ==
    \/ ~has_parser(r.path)
    \/ r.parsed /\ r.text = <<>>
    \/ r.parsed /\ ~r.force /\ checksum_unchanged(r)

C16_FileStateMachine ==
    file_run.pc = "done" =>
        /\ file_run.status \in {"success", "skipped", "unchanged", "error"}
        /\ file_run.raised => file_run.status = "error"
        /\ (file_run.found /\ ~file_run.raised) =>
              (file_run.status \in {"skipped", "unchanged"}
                  <=> SkipCause(file_run))
        /\ file_run.status = "success" =>
              SelectSeq(file_run.steps, IsClaimedStep) = ClaimedOrder

(***************************************************************************)
(* C17: ingest_file on an existing file with a supported extension and     *)
(* non-empty extracted text of any length, for which no Document exists    *)
(* yet, returns status success after add_document on the metadata store    *)
(* and add_embeddings on the dense index.                                  *)
(***************************************************************************)
IsNewTextFile(file_path) ==
    /\ files[file_path].exists
    /\ has_parser(file_path)
    /\ files[file_path].text # <<>>
    /\ get_document(documents, file_path) = NoDocument

C17_NewFileSucceeds ==
    [][\A p \in Paths, force \in BOOLEAN :
          (IsNewTextFile(p) /\ IngestFile(p, force)) =>
              /\ last_call'.status = "success"
              /\ get_document(documents', p) # NoDocument
              /\ ntotal(index') > ntotal(index)]_vars

(***************************************************************************)
(* C18: for every embedding id among the dense or lexical candidates the   *)
(* fused score is vector_weight * dense score (if the id is a dense        *)
(* candidate) plus bm25_weight * min(lexical score, 1.0) (if it is a       *)
(* lexical candidate), and no other id is fused; with weights 0.7 and 0.3, *)
(* dense 0.8 for X only and lexical 0.6 for Y only fuse to 0.56 and 0.18.  *)
(***************************************************************************)
CandidateIds(candidates) == {candidates[i][1] : i \in 1..Len(candidates)}

ScoreIn(candidates, embedding_id) ==
    candidates[CHOOSE i \in 1..Len(candidates) :
                  candidates[i][1] = embedding_id][2]

DenseTerm(run_, embedding_id) ==
    IF embedding_id \in CandidateIds(run_.vector_results)
    THEN vector_weight * ScoreIn(run_.vector_results, embedding_id)
    ELSE 0

LexicalTerm(run_, embedding_id) ==
    IF embedding_id \in CandidateIds(run_.bm25_results)
    THEN bm25_weight * Min(ScoreIn(run_.bm25_results, embedding_id), ScoreOne)
    ELSE 0

FusionExample ==
    sorted_ids(<< <<"X", 20>> >>, << <<"Y", 15>> >>)
        = << <<"X", 140>>, <<"Y", 45>> >>

Resolvable(embedding_id) ==
    /\ \E r \in Rows(chunks) : r.embedding_id = embedding_id
    /\ \E d \in documents :
          d.id = get_chunk_by_embedding_id(chunks, embedding_id).document_id

TopFused(run_) == Prefix(run_.sorted_ids, 2 * run_.top_k)

ResolvesTo(result, scored) ==
    /\ result.score = scored[2]
    /\ \E r \in Rows(chunks), d \in documents :
          /\ r.embedding_id = scored[1]
          /\ r.document_id = d.id
          /\ result.text = r.text
          /\ result.chunk_index = r.chunk_index
          /\ result.document_id = d.id
          /\ result.file_path = d.file_path

C19_HybridResultShape ==
    (search_run.pc = "returned" /\ ~search_run.use_reranker) =>
        /\ Len(search_run.results) <= search_run.top_k
        /\ \A i \in 1..(Len(search_run.results) - 1) :
              search_run.results[i].score >= search_run.results[i + 1].score
        /\ \A i \in 1..Len(search_run.results) :
              \E k \in 1..Len(TopFused(search_run)) :
                 ResolvesTo(search_run.results[i], TopFused(search_run)[k])
        /\ Len(search_run.results) <=
              Cardinality({k \in 1..Len(TopFused(search_run)) :
                              Resolvable(TopFused(search_run)[k][1])})

\* a search without reranking that fused more than 2 * top_k ids, one of the
\* top ones unresolvable, and returned top_k candidates
C19_Witness ==
    /\ search_run.pc = "returned"
    /\ ~search_run.use_reranker
    /\ Len(search_run.sorted_ids) > 2 * search_run.top_k
    /\ \E k \in 1..Len(TopFused(search_run)) :
          ~Resolvable(TopFused(search_run)[k][1])
    /\ Len(search_run.results) = search_run.top_k

(***************************************************************************)
(* C20: with use_reranker, a reranker loaded and a non-empty pool, every   *)
(* pool candidate is scored, each returned candidate's score is its rerank *)
(* score and the result is the top_k candidates in non-increasing          *)
(* rerank-score order; otherwise the result is the first top_k candidates  *)
(* of the fused ordering, unchanged.                                       *)
(***************************************************************************)
Reranked(run_) == run_.use_reranker /\ run_.reranker /\ run_.pool # <<>>

Injections(m, n) ==
    {f \in [1..m -> 1..n] : \A i, j \in 1..m : f[i] = f[j] => i = j}

C20_Reranking ==
    search_run.pc = "returned" =>
        IF Reranked(search_run)
        THEN /\ Len(search_run.rerank_scores) = Len(search_run.pool)
             /\ Len(search_run.pool) <= 2 * search_run.top_k
             /\ Len(search_run.results)
                   = Min(search_run.top_k, Len(search_run.pool))
             /\ \A i \in 1..(Len(search_run.results) - 1) :
                   search_run.results[i].score
                       >= search_run.results[i + 1].score
             /\ \E f \in Injections(Len(search_run.results),
                                    Len(search_run.pool)) :
                   /\ \A i \in 1..Len(search_run.results) :
                         /\ search_run.results[i].score
                               = search_run.rerank_scores[f[i]]
                         /\ search_run.results[i].text
                               = search_run.pool[f[i]].text
                         /\ search_run.results[i].original_score
                               = search_run.pool[f[i]].score
                   /\ \A k \in 1..Len(search_run.pool) :
                         (\A i \in 1..Len(search_run.results) : f[i] # k) =>
                            \A i \in 1..Len(search_run.results) :
                               search_run.results[i].score
                                   >= search_run.rerank_scores[k]
        ELSE search_run.results
                = Prefix(search_run.pool, search_run.top_k)

\* a reranked search whose pool is larger than top_k and whose best
\* candidate is not the best of the fused ordering
C20_Witness ==
    /\ search_run.pc = "returned"
    /\ Reranked(search_run)
    /\ Len(search_run.pool) > search_run.top_k
    /\ search_run.results[1].text # search_run.pool[1].text
    /\ search_run.results[1].original_score < search_run.pool[1].score

(***************************************************************************)
(* C21: when lexical scoring or the reranker call raises during search,    *)
(* the search still returns a result list built from the dense results     *)
(* only; the failure never reaches the caller.                             *)
(***************************************************************************)
DenseOnlyResults(run_) ==
    Prefix(chunk_details(documents, chunks,
                         Prefix(sorted_ids(run_.vector_results, <<>>),
                                2 * run_.top_k)),
           run_.top_k)

C21_GracefulDegradation ==
    (search_run.pc \in {"returned", "raised"} /\ "step" \in DOMAIN search_run) =>
        /\ search_run.pc = "returned"
        /\ search_run.results = DenseOnlyResults(search_run)

(***************************************************************************)
(* C22: when no lexical index has been built, search has no lexical        *)
(* candidates and does not fail; when the dense index is empty as well,    *)
(* search returns an empty list.                                           *)
(***************************************************************************)
C22_EmptyCorpus ==
    (search_run.pc \in {"returned", "raised"} /\ ~bm25_index.built) =>
        /\ search_run.pc = "raised" => search_run.step # "get_scores"
        /\ search_run.pc = "returned" => search_run.bm25_results = <<>>
        /\ ntotal(index) = 0 =>
              /\ search_run.pc = "returned"
              /\ search_run.results = <<>>

\* a search on an unbuilt lexical index that returns dense candidates
C22_Witness ==
    /\ search_run.pc = "returned"
    /\ ~bm25_index.built
    /\ ntotal(index) > 0
    /\ search_run.results # <<>>

(***************************************************************************)
(* C23: VectorStore.search(query, k) on an index of N vectors returns the  *)
(* min(k, N) highest-scoring stored entries in non-increasing score order, *)
(* fewer than k only when the index holds fewer than k vectors, and an     *)
(* empty list on an index that was never populated.                        *)
(***************************************************************************)
C23_DenseTopK ==
    search_run.pc = "returned" =>
        LET k == 2 * search_run.top_k
            q == embed(search_run.query)
            hits == search_run.vector_results
        IN /\ Len(hits) = Min(k, ntotal(index))
           /\ \A i \in 1..(Len(hits) - 1) : hits[i][2] >= hits[i + 1][2]
           /\ \A i \in 1..Len(hits) :
                 \E n \in DOMAIN id_map :
                    /\ id_map[n].id = hits[i][1]
                    /\ SlotScore(index, q, n) = hits[i][2]
           /\ \A n \in 0..(ntotal(index) - 1) :
                 \/ Len(hits) = 0
                 \/ SlotScore(index, q, n) <= hits[Len(hits)][2]
                 \/ \E i \in 1..Len(hits) : SlotScore(index, q, n) = hits[i][2]

(***************************************************************************)
(* C24: a search made again with the same query, top_k and use_reranker on *)
(* the same index, lexical snapshot and metadata store (and the same       *)
(* cross-encoder scores) returns the same list, and candidates of equal    *)
(* score keep the order of the fused ranking.                              *)
(***************************************************************************)
PoolPosition(run_, result) ==
    CHOOSE i \in 1..Len(run_.pool) :
        /\ run_.pool[i].text = result.text
        /\ run_.pool[i].document_id = result.document_id
        /\ run_.pool[i].chunk_index = result.chunk_index

TiesKeepFusedOrder(run_) ==
    \A i, j \in 1..Len(run_.results) :
        (i < j /\ run_.results[i].score = run_.results[j].score) =>
            PoolPosition(run_, run_.results[i])
                < PoolPosition(run_, run_.results[j])

C25_ChunkingTerminates ==
    [][SizeStep => (chunk_run'.pc = "done" \/ chunk_run'.start > chunk_run.start)]_vars

ChunkDone == chunk_run.pc = "done"
SentenceMode == chunk_run.cfg.respect_sentence_boundary
ChunkLen(i) == Len(chunk_run.chunk_list[i].text)
Suffix(seq, n) == SubSeq(seq, Len(seq) - n + 1, Len(seq))

\* the chunk is one sentence of the cleaned text, longer than chunk_size
SingleLongSentence(i) ==
    \E k \in DOMAIN sentence_split(chunk_run.cleaned) :
        /\ Strip(sentence_split(chunk_run.cleaned)[k]) = chunk_run.chunk_list[i].text
        /\ ChunkLen(i) > chunk_run.cfg.chunk_size

(***************************************************************************)
(* C26: every chunk is at most chunk_size characters long: always in size  *)
(* mode, and in sentence mode unless the chunk is a single sentence that   *)
(* alone is longer than chunk_size.                                        *)
(***************************************************************************)
C26_ChunkLengthBound ==
    ChunkDone =>
        \A i \in DOMAIN chunk_run.chunk_list :
            \/ ChunkLen(i) <= chunk_run.cfg.chunk_size
            \/ SentenceMode /\ SingleLongSentence(i)

\* the texts obtained from the first i chunks by removing from each chunk a
\* head that is a tail of its predecessor and joining with or without a space
RECURSIVE Reconstructions(_, _)
Reconstructions(chunk_list, i) ==
    IF i = 0 THEN {<<>>}
    ELSE IF i = 1 THEN {chunk_list[1].text}
    ELSE LET prev == chunk_list[i - 1].text
             cur == chunk_list[i].text
             cuts == {n \in 0..Min(Len(prev), Len(cur)) :
                         Suffix(prev, n) = Prefix(cur, n)}
         IN {r \o sep \o Strip(SubSeq(cur, n + 1, Len(cur))) :
                r \in Reconstructions(chunk_list, i - 1),
                sep \in {<<>>, <<" ">>},
                n \in cuts}

(***************************************************************************)
(* C27: in sentence mode the chunk texts, in order and with each chunk's   *)
(* overlap with its predecessor removed, give back the cleaned text.       *)
(***************************************************************************)
C27_ChunkCoverage ==
    (ChunkDone /\ SentenceMode /\ chunk_run.cleaned # <<>>) =>
        chunk_run.cleaned
            \in Reconstructions(chunk_run.chunk_list, Len(chunk_run.chunk_list))

\* the tail of chunk i equals the head of chunk i+1 over at least n characters
SharesAtLeast(i, n) ==
    \E m \in n..Min(ChunkLen(i), ChunkLen(i + 1)) :
        Suffix(chunk_run.chunk_list[i].text, m)
            = Prefix(chunk_run.chunk_list[i + 1].text, m)

(***************************************************************************)
(* C28: with chunk_overlap > 0 and more than one chunk, consecutive chunks *)
(* share at least chunk_overlap characters, the tail of the earlier being  *)
(* the head of the later; with chunk_overlap = 0 no chunk starts before    *)
(* the end of its predecessor.                                             *)
(***************************************************************************)
C28_OverlapBound ==
    ChunkDone =>
        \A i \in 1..(Len(chunk_run.chunk_list) - 1) :
            IF chunk_run.cfg.chunk_overlap > 0
            THEN SharesAtLeast(i, chunk_run.cfg.chunk_overlap)
            ELSE chunk_run.chunk_list[i + 1].start >= chunk_run.chunk_list[i].end

C30_NonEmptyChunking ==
    ChunkDone =>
        /\ (/\ chunk_run.cfg = TestSentenceConfig
            /\ Strip(chunk_run.text) # <<>>
            /\ Len(sentence_split(clean_text(chunk_run.text))) > 1)
              => chunk_run.chunk_list # <<>>
        /\ (/\ chunk_run.cfg = TestSizeConfig
            /\ Len(chunk_run.text) > chunk_run.cfg.chunk_size)
              => chunk_run.chunk_list # <<>>

(***************************************************************************)
(* C31: in sentence mode every chunk but the last ends with the terminal   *)
(* punctuation ('.', '!' or '?') of its last sentence.                     *)
(***************************************************************************)
C31_SentenceAlignedEnds ==
    (ChunkDone /\ SentenceMode) =>
        \A i \in 1..(Len(chunk_run.chunk_list) - 1) :
            /\ chunk_run.chunk_list[i].text # <<>>
            /\ chunk_run.chunk_list[i].text[ChunkLen(i)] \in Terminals

\* the positions reachable from the set reached over similar pairs
RECURSIVE SimilarClosure(_, _, _)
SimilarClosure(reached, n, pairs) ==
    LET more == reached \cup {j \in 0..(n - 1) :
                    \E i \in reached : SimilarityMatrix(n, pairs)[<<i, j>>]}
    IN IF more = reached THEN reached ELSE SimilarClosure(more, n, pairs)

\* the lowest position of every transitive group, in order
GroupFirsts(n, pairs) ==
    KeepPositions([k \in 1..n |-> k - 1],
                  {j \in 0..(n - 1) : \E i \in SimilarClosure({j}, n, pairs) : i < j},
                  0)

BatchDone == dedup_call.op = "batch" /\ ~dedup_call.fails

(***************************************************************************)
(* C32: deduplicate_chunks groups the passages of the batch transitively   *)
(* over similarity >= similarity_threshold and keeps the lowest-index      *)
(* passage of each group, in the order of the input: [t, t, u] gives the   *)
(* first t and u, [t, t, u, v] gives three passages.                       *)
(***************************************************************************)
C32_PairwiseDeduplication ==
    BatchDone => dedup_call.value = GroupFirsts(dedup_call.n, dedup_call.pairs)

(***************************************************************************)
(* C33: is_duplicate_exact(t) returns true exactly if an earlier call on   *)
(* the instance was made with the same text, and the set of seen hashes    *)
(* only grows, whatever calls are made.                                    *)
(***************************************************************************)
C33_ExactDuplicates ==
    [][/\ deduplicator.seen_hashes \subseteq deduplicator'.seen_hashes
       /\ \A text \in DedupTexts :
             ExactCall(text) =>
                dedup_call'.value = (text \in deduplicator.exact_texts)]_vars

\* a repeated text reported after other texts and a fuzzy call came between
C33_Witness ==
    /\ dedup_call.op = "exact"
    /\ dedup_call.value
    /\ Cardinality(deduplicator.seen_hashes) >= 3
    /\ deduplicator.lsh # {}

(***************************************************************************)
(* C34: no is_duplicate_fuzzy call raises, in any interleaving with        *)
(* is_duplicate_exact calls; a call that matches no recorded text returns  *)
(* (false, 0.0) and records the text under a fresh key.                    *)
(***************************************************************************)
C34_FuzzyAdvisory ==
    [][\A text \in DedupTexts, near \in BOOLEAN :
          FuzzyCall(text, near) =>
             /\ ~dedup_call'.raised
             /\ lsh_query(deduplicator.lsh, MinHash(text), near) = {} =>
                   /\ dedup_call'.value = <<FALSE, 0>>
                   /\ \E e \in deduplicator'.lsh \ deduplicator.lsh :
                         e.minhash = MinHash(text)]_vars

Retained(i) == \E k \in DOMAIN dedup_call.value : dedup_call.value[k] = i
BatchSimilar(i, j) ==
    SimilarityMatrix(dedup_call.n, dedup_call.pairs)[<<i, j>>]

(***************************************************************************)
(* C39: after deduplicate_chunks no two retained passages are similar,     *)
(* every dropped passage is similar to a retained passage of lower index,  *)
(* the first passage is retained, and a batch of fewer than two passages   *)
(* or one whose vectorization fails is returned unchanged.                 *)
(***************************************************************************)
C39_DeduplicationResult ==
    dedup_call.op = "batch" =>
        LET n == dedup_call.n
        IN /\ \A i, j \in 0..(n - 1) :
                 (i # j /\ Retained(i) /\ Retained(j)) => ~BatchSimilar(i, j)
                    \/ dedup_call.fails
           /\ \A j \in 0..(n - 1) :
                 ~Retained(j) =>
                    \E i \in 0..(j - 1) : Retained(i) /\ BatchSimilar(i, j)
           /\ n > 0 => Retained(0)
           /\ (n < 2 \/ dedup_call.fails) =>
                 dedup_call.value = [k \in 1..n |-> k - 1]

\* a chain: 0 similar to 1, 1 to 2, 0 not to 2; 1 is dropped, 0 and 2 stay
C39_Witness ==
    /\ BatchDone
    /\ dedup_call.n >= 3
    /\ BatchSimilar(0, 1) /\ BatchSimilar(1, 2) /\ ~BatchSimilar(0, 2)
    /\ ~Retained(1) /\ Retained(0) /\ Retained(2)

(***************************************************************************)
(* C35: in every state reached by ingest_file and delete_document no two   *)
(* slots of the dense index carry the same embedding_id and no two         *)
(* passages of the metadata store carry the same embedding_id.             *)
(***************************************************************************)
C35_EmbeddingIdUnique ==
    /\ \A s, t \in DOMAIN id_map : id_map[s].id = id_map[t].id => s = t
    /\ \A i, j \in DOMAIN chunks :
          chunks[i].embedding_id = chunks[j].embedding_id => i = j

\* the passages of the document of the path are stored and indexed
PassagesStored(file_path) ==
    LET doc == get_document(documents, file_path)
        rows == get_chunks(chunks, doc.id)
    IN /\ doc # NoDocument
       /\ rows # <<>>
       /\ \A i \in DOMAIN rows :
             \E s \in DOMAIN id_map : id_map[s].id = rows[i].embedding_id

(***************************************************************************)
(* C36: after an ingestion that failed once the Document record was        *)
(* written, a later ingest_file of the unchanged file without force is not *)
(* answered "unchanged": an "unchanged" answer for a text that has chunks  *)
(* is given only when the document's passages are stored and indexed.      *)
(***************************************************************************)
C36_FailedIngestionRetried ==
    (/\ file_run.pc = "done"
     /\ file_run.status = "unchanged"
     /\ RetainedChunks[file_run.text] # <<>>) => PassagesStored(file_run.path)

AllFinished == \A c \in Scheduled : coroutines[c].pc = "done"

\* the stores hold what one ingestion of the text leaves for the path
SingleIngestion(file_path, text) ==
    LET doc == get_document(documents, file_path)
    IN /\ Cardinality({d \in documents : d.file_path = file_path}) = 1
       /\ get_chunks(chunks, doc.id) = add_chunks(<<>>, doc.id,
                                          stored_chunks(doc.id, RetainedChunks[text]))
       /\ Len(chunks) = Len(RetainedChunks[text])
       /\ ntotal(index) = Len(chunks)
       /\ \A i \in DOMAIN chunks :
             Cardinality({s \in DOMAIN id_map :
                             id_map[s].id = chunks[i].embedding_id}) = 1

(***************************************************************************)
(* C37: two ingest_file coroutines of one path, scheduled for a created    *)
(* and a modified event of the same content, leave under every             *)
(* interleaving the state of a single ingestion: one Document, one set of  *)
(* passages, one slot of the dense index for each passage.                 *)
(***************************************************************************)
C37_ConcurrentIngestion ==
    (/\ AllFinished
     /\ \A c \in Scheduled : coroutines[c].kind = "ingest"
     /\ coroutines[1].text = files[WatchPath].text
     /\ coroutines[2].text = files[WatchPath].text
     /\ \E c \in Scheduled : coroutines[c].status = "success")
        => SingleIngestion(WatchPath, files[WatchPath].text)

(***************************************************************************)
(* C38: a deletion scheduled while an ingestion of the file is in progress *)
(* wins: when both coroutines have finished, the file has no Document, no  *)
(* Passages and no slots of the dense index.                               *)
(***************************************************************************)
C38_DeletionWins ==
    (/\ AllFinished
     /\ coroutines[1].kind = "ingest"
     /\ coroutines[2].kind = "delete"
     /\ coroutines[2].in_flight)
        => /\ get_document(documents, WatchPath) = NoDocument
           /\ chunks = <<>>
           /\ ntotal(index) = 0


====
